---- MODULE Spec2Model ----
(***************************************************************************)
(* Host side of the i.MX ATK RAM kernel protocol (pyatk/ramkernel.py)      *)
(* talking over the test channel (pyatk/tests/mockchannel.py).             *)
(*                                                                         *)
(* The channel is a byte queue.  The device side queues 8-byte response   *)
(* headers, optionally followed by payload bytes; the host side writes    *)
(* 16-byte command frames and reads the responses back byte by byte, so   *)
(* that packing and unpacking are computed and never assumed.             *)
(***************************************************************************)
EXTENDS Integers, Sequences, FiniteSets, TLC

\* ------------------------------------------------------------------------
\* Program constants (pyatk/ramkernel.py)
\* ------------------------------------------------------------------------
HEADER_MAGIC == 1542
CMD_FLASH_INITIAL == 1
CMD_FLASH_ERASE == 2
CMD_FLASH_DUMP == 3
CMD_FLASH_PROGRAM == 4
CMD_FLASH_GET_CAPACITY == 6
CMD_RESET == 513
CMD_GETVER == 516

FLASH_FILE_FORMAT_NORMAL == 0
FLASH_FILE_FORMAT_NB0 == 1
FLASH_FILE_FORMAT_OPS == 2
FLASH_PROGRAM_MAX_WRITE_SIZE == 2097152

ACK_SUCCESS == 0
ACK_FLASH_PARTLY == 1
ACK_FLASH_ERASE == 2
ACK_FLASH_VERIFY == 3
FLASH_FAILED == -4

\* ------------------------------------------------------------------------
\* Bounds of the model
\* ------------------------------------------------------------------------
\* Calls made on one protocol object.
MaxCalls == 2
\* Responses the device queues between two calls of the host.
MaxResponses == 4
\* Bytes that may still be unread when the device queues its next response.
MaxBacklog == 0
\* Largest size asked of flash_dump and flash_erase.
MaxSize == 3

\* ------------------------------------------------------------------------
\* Input sets
\* ------------------------------------------------------------------------
\* ACK codes the device answers with: the four non-error codes and one error.
Acks == {ACK_SUCCESS, ACK_FLASH_PARTLY, ACK_FLASH_ERASE, ACK_FLASH_VERIFY, FLASH_FAILED}

\* (checksum, length, payload) of a response.  A response of a dump carries
\* `length` payload bytes; a response of an erase or a program carries a block
\* index and a byte count and no payload.
Shapes ==
    { [checksum |-> 0, length |-> 0, payload |-> <<>>],
      [checksum |-> 1, length |-> 1, payload |-> <<1>>],
      [checksum |-> 3, length |-> 2, payload |-> <<1, 2>>],
      [checksum |-> 2, length |-> 1, payload |-> <<1>>],
      [checksum |-> 1, length |-> 2, payload |-> <<>>] }

Addresses == {0, 258}

\* Data handed to flash_program: len(data) and the bytes written to the channel.
\* The last one stands for an object one byte longer than the RAM kernel's buffer.
DataSet ==
    { [len |-> 0, bytes |-> <<>>],
      [len |-> 2, bytes |-> <<7, 8>>],
      [len |-> FLASH_PROGRAM_MAX_WRITE_SIZE + 1, bytes |-> <<>>] }

FileFormats == {FLASH_FILE_FORMAT_NORMAL, FLASH_FILE_FORMAT_OPS, 3}

\* ------------------------------------------------------------------------
\* struct.pack / struct.unpack, big-endian
\* ------------------------------------------------------------------------
\* ">H"
PackU16(v) == << (v \div 256) % 256, v % 256 >>

\* ">h"
PackS16(v) == PackU16(IF v < 0 THEN v + 65536 ELSE v)

\* ">I"
PackU32(v) ==
    << (v \div 16777216) % 256, (v \div 65536) % 256, (v \div 256) % 256, v % 256 >>

UnpackU16(b, i) == b[i] * 256 + b[i + 1]

UnpackS16(b, i) ==
    IF UnpackU16(b, i) >= 32768 THEN UnpackU16(b, i) - 65536 ELSE UnpackU16(b, i)

UnpackU32(b, i) == ((b[i] * 256 + b[i + 1]) * 256 + b[i + 2]) * 256 + b[i + 3]

\* struct.pack(">HHIII", HEADER_MAGIC, command, address, param1, param2)
PackCommand(command, address, param1, param2) ==
    PackU16(HEADER_MAGIC) \o PackU16(command) \o PackU32(address)
        \o PackU32(param1) \o PackU32(param2)

\* struct.pack(">hHI", ackcode, checksum, length)
PackResponse(ackcode, checksum, length) ==
    PackS16(ackcode) \o PackU16(checksum) \o PackU32(length)

\* struct.unpack(">hHI", response)
UnpackResponse(response) ==
    [ack |-> UnpackS16(response, 1),
     checksum |-> UnpackU16(response, 3),
     length |-> UnpackU32(response, 5)]

\* ------------------------------------------------------------------------
\* The channel
\* ------------------------------------------------------------------------
Min(a, b) == IF a < b THEN a ELSE b

\* MockChannel.read(length): up to `length` bytes of what is queued.
ChannelRead(queue, length) == SubSeq(queue, 1, Min(length, Len(queue)))

\* What MockChannel.read(length) leaves queued.
ChannelRest(queue, length) == SubSeq(queue, Min(length, Len(queue)) + 1, Len(queue))

\* ------------------------------------------------------------------------
\* calculate_checksum
\* ------------------------------------------------------------------------
\* A pass of the loop that does not mask the sum.
ChecksumStepUnmasked(checksum, byte) == checksum + byte

\* calculate_checksum, line 165: checksum = (checksum + ord(byte)) & 0x0000FFFF
ChecksumStep(checksum, byte) == (checksum + byte) % 65536

\* The for loop over buf[i .. j]: one masked pass for each byte, from the
\* left. The range is halved, and the checksum after the left half is a
\* number before the right half starts, so that a long buffer is evaluated
\* without a deep recursion.
RECURSIVE ChecksumFrom(_, _, _, _)
ChecksumFrom(buf, i, j, checksum) ==
    IF i > j THEN checksum
    ELSE IF i = j THEN ChecksumStep(checksum, buf[i])
    ELSE LET mid == (i + j) \div 2
             left == ChecksumFrom(buf, i, mid, checksum)
         IN  IF left \in Int THEN ChecksumFrom(buf, mid + 1, j, left) ELSE left

calculate_checksum(buf) == ChecksumFrom(buf, 1, Len(buf), 0)

\* "".join(payload_list)
RECURSIVE Join(_)
Join(list) == IF list = <<>> THEN <<>> ELSE Head(list) \o Join(Tail(list))

\* ------------------------------------------------------------------------
\* State
\* ------------------------------------------------------------------------
VARIABLES
    send_queue,     \* MockChannel.send_queue: bytes queued for the host, in order
    written,        \* MockChannel.recv_data: what the current call has written
    pc,             \* where the current call stands; "idle" between calls
    op,             \* the current (or last) call and its arguments
    rx_log,         \* the responses the current call has read, in order
    cb_log,         \* the callback invocations of the current call, in order
    payload_list,   \* flash_dump: payload_list
    total_bytes,    \* flash_dump: total_bytes
    total_length,   \* flash_program: total_length
    outcome,        \* how the last call ended: its return value or its exception
    flash_inited,   \* history: a flash_initial call has returned on ACK_SUCCESS
    ncalls,         \* calls made so far
    nsent           \* responses queued since the last call began

\* SerialBootProtocol.write_file: its local and what it streamed to the channel.
VARIABLES
    bytes_consumed,   \* write_file: bytes_consumed
    stream_written    \* the length of each chunk write_file wrote after its command

\* ToolkitApplication: one run of the command-line tool.
VARIABLES
    app_pc,         \* where the run stands
    app_op,         \* the tool, its channel kind and the mode it was started in
    chan_open,      \* the channel is open
    app_log,        \* what the run did to the channel and the device, in order
    attempts,       \* channel_reinit: attempts
    app_ret,        \* channel_reinit: the place it was called from
    app_exc,        \* the exception on its way up, "none" when there is none
    app_exit        \* how the run ended, "none" while it runs

\* The concrete channels: one read call on an open channel.
VARIABLES
    ch_pc,                  \* where the read stands
    ch_op,                  \* the channel class and the length asked for
    data_read,              \* UARTChannel.read: the bytes read so far
    internal_read_buffer,   \* USBChannel.internal_read_buffer
    ch_result,              \* what the read returned or raised
    ch_nreads               \* reads made so far

\* The device the boot ROM runs on, as far as write_memory and read_memory see
\* it: the last value it stored.
VARIABLES
    memory          \* the address, the width and the bytes stored, and the argument written

\* calculate_checksum: one call.
VARIABLES
    sum_pc,         \* where the call stands
    sum_buf,        \* buf
    sum_i,          \* the position of the for loop in buf
    sum_checksum    \* checksum

\* The SBP traffic of a tool before the download, call by call.
VARIABLES
    st_pc,          \* the statement the start-up sequence stands at
    st_op,          \* the tool, the BSP's base address, the mode and the init script
    st_i,           \* the position of mem_initialize's for loop in the script
    traffic         \* the SBP calls made so far, each with its arguments

\* ram_kernel_flash_file: one run of the program-file sub-command.
VARIABLES
    ff_pc,              \* where the sub-command stands
    ff_op,              \* the tool, start_address and the size of the file
    current_address,    \* current_address
    ff_chunk,           \* chunk: so many zero bytes, then the file from an offset on
    file_pos,           \* the position of file_fp
    kernel_calls,       \* the calls of the RAM kernel protocol made so far
    ff_exc              \* the exception that ended the sub-command

\* A USBChannel from its construction on, with what went through it.
VARIABLES
    usb_open,       \* open() has found the device and close() was not called since
    received,       \* every byte the IN endpoint has handed over, in order
    returned,       \* every byte read() has returned, in order
    stale,          \* how many bytes had been received when open() last succeeded
    usb_nreads,     \* read() calls so far
    failed_reads    \* read() calls that raised

rkl_vars == << send_queue, written, pc, op, rx_log, cb_log, payload_list,
               total_bytes, total_length, outcome, flash_inited, ncalls, nsent >>

sbp_vars == << bytes_consumed, stream_written >>

app_vars == << app_pc, app_op, chan_open, app_log, attempts, app_ret, app_exc, app_exit >>

chan_vars == << ch_pc, ch_op, data_read, internal_read_buffer, ch_result, ch_nreads >>

dev_vars == << memory >>

sum_vars == << sum_pc, sum_buf, sum_i, sum_checksum >>

init_vars == << st_pc, st_op, st_i, traffic >>

file_vars == << ff_pc, ff_op, current_address, ff_chunk, file_pos, kernel_calls, ff_exc >>

usb_vars == << usb_open, received, returned, stale, usb_nreads, failed_reads >>

tool_vars == << init_vars, file_vars, usb_vars >>

vars == << rkl_vars, sbp_vars, app_vars, chan_vars, dev_vars, sum_vars, tool_vars >>

\* A call of a method of RAMKernelProtocol with its arguments.
Call(name, address, size, data, file_format, read_back_verify, callback, verify_callback) ==
    [name |-> name, address |-> address, size |-> size, data |-> data,
     file_format |-> file_format, read_back_verify |-> read_back_verify,
     callback |-> callback, verify_callback |-> verify_callback]

NoData == [len |-> 0, bytes |-> <<>>]

SimpleCall(name) == Call(name, 0, 0, NoData, 0, FALSE, FALSE, FALSE)

\* Outcomes of a call.
Outcome(kind, command, ack, length, expected_checksum, checksum, value) ==
    [kind |-> kind, command |-> command, ack |-> ack, length |-> length,
     expected_checksum |-> expected_checksum, checksum |-> checksum, value |-> value]

Pending == Outcome("pending", 0, 0, 0, 0, 0, <<>>)

Returns(value) == Outcome("return", 0, 0, 0, 0, 0, value)

\* An exception that carries no fields of its own.
Raises(kind) == Outcome(kind, 0, 0, 0, 0, 0, <<>>)

\* CommandResponseError(command, ackcode, length)
CommandResponseError(command, ackcode, length) ==
    Outcome("CommandResponseError", command, ackcode, length, 0, 0, <<>>)

\* ChecksumError(expected_checksum, checksum)
ChecksumError(expected_checksum, checksum) ==
    Outcome("ChecksumError", 0, 0, 0, expected_checksum, checksum, <<>>)

\* A response as the host has read it: the header's fields and the payload
\* bytes read after it (none when the call did not read a payload).
Received(header, payload) ==
    [ack |-> header.ack, checksum |-> header.checksum, length |-> header.length,
     payload |-> payload]

\* A device that has stored nothing yet.
NoMemory == [address |-> <<>>, datasize |-> 0, stored |-> <<>>, data |-> [hi |-> 0, lo |-> 0]]

Init ==
    /\ send_queue = <<>>
    /\ written = <<>>
    /\ pc = "idle"
    /\ op = SimpleCall("none")
    /\ rx_log = <<>>
    /\ cb_log = <<>>
    /\ payload_list = <<>>
    /\ total_bytes = 0
    /\ total_length = 0
    /\ outcome = Pending
    /\ flash_inited = FALSE
    /\ ncalls = 0
    /\ nsent = 0
    /\ bytes_consumed = 0
    /\ stream_written = <<>>
    /\ app_pc = "start"
    /\ app_op = [tool |-> "none", usb |-> FALSE, mode |-> "none"]
    /\ chan_open = FALSE
    /\ app_log = <<>>
    /\ attempts = 0
    /\ app_ret = "none"
    /\ app_exc = "none"
    /\ app_exit = "none"
    /\ ch_pc = "idle"
    /\ ch_op = [impl |-> "none", length |-> 0]
    /\ data_read = <<>>
    /\ internal_read_buffer = <<>>
    /\ ch_result = [kind |-> "pending", data |-> <<>>]
    /\ ch_nreads = 0
    /\ memory = NoMemory
    /\ sum_pc = "idle"
    /\ sum_buf = <<>>
    /\ sum_i = 1
    /\ sum_checksum = 0
    /\ st_pc = "start"
    /\ st_op = [tool |-> "none", base |-> 0, mode |-> "none", init_file |-> FALSE, script |-> <<>>]
    /\ st_i = 1
    /\ traffic = <<>>
    /\ ff_pc = "start"
    /\ ff_op = [tool |-> "none", start_address |-> 0, data_size |-> 0]
    /\ current_address = 0
    /\ ff_chunk = [pad |-> 0, offset |-> 0, len |-> 0]
    /\ file_pos = 0
    /\ kernel_calls = <<>>
    /\ ff_exc = "none"
    /\ usb_open = FALSE
    /\ received = <<>>
    /\ returned = <<>>
    /\ stale = 0
    /\ usb_nreads = 0
    /\ failed_reads = 0

\* ------------------------------------------------------------------------
\* The device side: MockChannel.queue_rkl_response
\* ------------------------------------------------------------------------
queue_rkl_response(ackcode, checksum, length, payload) ==
    /\ nsent < MaxResponses
    /\ Len(send_queue) <= MaxBacklog
    /\ pc # "done"
    /\ pc # "idle" \/ ncalls < MaxCalls
    /\ send_queue' = send_queue \o PackResponse(ackcode, checksum, length) \o payload
    /\ nsent' = nsent + 1
    /\ UNCHANGED << written, pc, op, rx_log, cb_log, payload_list, total_bytes,
                    total_length, outcome, flash_inited, ncalls >>
    /\ UNCHANGED << sbp_vars, app_vars, chan_vars, dev_vars, sum_vars, tool_vars >>

\* ------------------------------------------------------------------------
\* The host side: RAMKernelProtocol
\* ------------------------------------------------------------------------
\* _read_response: the 8 bytes read, and whether struct.unpack accepts them.
HeaderBytes == ChannelRead(send_queue, 8)

HeaderShort == Len(HeaderBytes) < 8

Header == UnpackResponse(HeaderBytes)

AfterHeader == ChannelRest(send_queue, 8)

\* The start of every call: a call on an idle protocol object.
Begin(call) ==
    /\ pc = "idle"
    /\ ncalls < MaxCalls
    /\ ncalls' = ncalls + 1
    /\ op' = call
    /\ UNCHANGED << rx_log, cb_log, payload_list, total_bytes, total_length, nsent >>

\* The end of a call: it returns or raises into its caller.
Finish(result) ==
    /\ pc' = "done"
    /\ outcome' = result

\* _send_command, line 200: the ACKs it lets through.
SendCommandAccepts(ack) == ack \in {ACK_SUCCESS, ACK_FLASH_PARTLY}

\* flash_initial: the command is written.
flash_initial ==
    /\ Begin(SimpleCall("flash_initial"))
    /\ written' = << PackCommand(CMD_FLASH_INITIAL, 0, 0, 0) >>
    /\ pc' = "flash_initial"
    /\ outcome' = Pending
    /\ UNCHANGED << send_queue, flash_inited >>
    /\ UNCHANGED << sbp_vars, app_vars, chan_vars, dev_vars, sum_vars, tool_vars >>

\* flash_initial: _send_command reads the one response.
flash_initial_response ==
    /\ pc = "flash_initial"
    /\ send_queue' = AfterHeader
    /\ IF HeaderShort
       THEN /\ Finish(Raises("struct.error"))
            /\ UNCHANGED << rx_log, flash_inited >>
       ELSE /\ rx_log' = Append(rx_log, Received(Header, <<>>))
            /\ IF ~SendCommandAccepts(Header.ack)
               THEN /\ Finish(CommandResponseError(CMD_FLASH_INITIAL, Header.ack, Header.length))
                    /\ UNCHANGED flash_inited
               ELSE /\ Finish(Returns(<<>>))
                    /\ flash_inited' = (flash_inited \/ Header.ack = ACK_SUCCESS)
    /\ UNCHANGED << written, op, cb_log, payload_list, total_bytes, total_length,
                    ncalls, nsent >>
    /\ UNCHANGED << sbp_vars, app_vars, chan_vars, dev_vars, sum_vars, tool_vars >>

\* getver: the command is written.
getver ==
    /\ Begin(SimpleCall("getver"))
    /\ written' = << PackCommand(CMD_GETVER, 0, 0, 0) >>
    /\ pc' = "getver"
    /\ outcome' = Pending
    /\ UNCHANGED << send_queue, flash_inited >>
    /\ UNCHANGED << sbp_vars, app_vars, chan_vars, dev_vars, sum_vars, tool_vars >>

\* getver: the response and its payload.
getver_response ==
    /\ pc = "getver"
    /\ IF HeaderShort
       THEN /\ Finish(Raises("struct.error"))
            /\ send_queue' = AfterHeader
            /\ UNCHANGED rx_log
       ELSE IF ~SendCommandAccepts(Header.ack)
       THEN /\ Finish(CommandResponseError(CMD_GETVER, Header.ack, Header.length))
            /\ send_queue' = AfterHeader
            /\ rx_log' = Append(rx_log, Received(Header, <<>>))
       ELSE LET payload == IF Header.length > 0
                           THEN ChannelRead(AfterHeader, Header.length) ELSE <<>>
            IN /\ Finish(Returns(<< Header.checksum, payload >>))
               /\ send_queue' = IF Header.length > 0
                                THEN ChannelRest(AfterHeader, Header.length)
                                ELSE AfterHeader
               /\ rx_log' = Append(rx_log, Received(Header, payload))
    /\ UNCHANGED << written, op, cb_log, payload_list, total_bytes, total_length,
                    flash_inited, ncalls, nsent >>
    /\ UNCHANGED << sbp_vars, app_vars, chan_vars, dev_vars, sum_vars, tool_vars >>

\* The ACKs _send_command lets through, were they let through here too.
CapacityAcceptsPartly(ack) == ack \in {ACK_SUCCESS, ACK_FLASH_PARTLY}

\* flash_get_capacity, line 283.
CapacityAccepts(ack) == ack = ACK_SUCCESS

\* flash_get_capacity: the command is written.
flash_get_capacity ==
    /\ Begin(SimpleCall("flash_get_capacity"))
    /\ written' = << PackCommand(CMD_FLASH_GET_CAPACITY, 0, 0, 0) >>
    /\ pc' = "flash_get_capacity"
    /\ outcome' = Pending
    /\ UNCHANGED << send_queue, flash_inited >>
    /\ UNCHANGED << sbp_vars, app_vars, chan_vars, dev_vars, sum_vars, tool_vars >>

\* flash_get_capacity: the one response; its length field is the capacity.
flash_get_capacity_response ==
    /\ pc = "flash_get_capacity"
    /\ send_queue' = AfterHeader
    /\ IF HeaderShort
       THEN /\ Finish(Raises("struct.error"))
            /\ UNCHANGED rx_log
       ELSE /\ rx_log' = Append(rx_log, Received(Header, <<>>))
            /\ IF ~CapacityAccepts(Header.ack)
               THEN Finish(CommandResponseError(CMD_FLASH_GET_CAPACITY, Header.ack, Header.length))
               ELSE Finish(Returns(<< Header.length >>))
    /\ UNCHANGED << written, op, cb_log, payload_list, total_bytes, total_length,
                    flash_inited, ncalls, nsent >>
    /\ UNCHANGED << sbp_vars, app_vars, chan_vars, dev_vars, sum_vars, tool_vars >>

\* reset: the command is written and no response is read.
reset ==
    /\ Begin(SimpleCall("reset"))
    /\ written' = << PackCommand(CMD_RESET, 0, 0, 0) >>
    /\ Finish(Returns(<<>>))
    /\ UNCHANGED << send_queue, flash_inited >>
    /\ UNCHANGED << sbp_vars, app_vars, chan_vars, dev_vars, sum_vars, tool_vars >>

\* ------------------------------------------------------------------------
\* flash_dump
\* ------------------------------------------------------------------------
\* flash_dump, line 265: the ACK a response after the first must have.
DumpAccepts(ack) == ack = ACK_FLASH_PARTLY

\* A read_payload that never compares the two checksums.
ChecksumUnverified(mychecksum, checksum) == TRUE

\* read_payload, line 248.
ChecksumMatches(mychecksum, checksum) == mychecksum = checksum

\* read_payload, line 251: payload_list.append(payload)
PayloadListAppend(list, payload) == Append(list, payload)

\* A loop that asks for one more response when total_bytes has reached size.
DumpContinuesInclusive(total, size) == total <= size

\* flash_dump, line 263: while total_bytes < size
DumpContinues(total, size) == total < size

\* read_payload, lines 242-245: the payload bytes read after the header.
PayloadRead == IF Header.length > 0 THEN ChannelRead(AfterHeader, Header.length) ELSE <<>>

AfterPayload ==
    IF Header.length > 0 THEN ChannelRest(AfterHeader, Header.length) ELSE AfterHeader

\* flash_dump: the command is written.
flash_dump(address, size) ==
    /\ Begin(Call("flash_dump", address, size, NoData, 0, FALSE, FALSE, FALSE))
    /\ written' = << PackCommand(CMD_FLASH_DUMP, address, size, 0) >>
    /\ pc' = "flash_dump_first"
    /\ outcome' = Pending
    /\ UNCHANGED << send_queue, flash_inited >>
    /\ UNCHANGED << sbp_vars, app_vars, chan_vars, dev_vars, sum_vars, tool_vars >>

\* One response of a dump: the header, the ACK test (`accepted`), the payload,
\* its checksum, and the test of the loop.
DumpResponse(accepted) ==
    /\ IF HeaderShort
       THEN /\ Finish(Raises("struct.error"))
            /\ send_queue' = AfterHeader
            /\ UNCHANGED << rx_log, payload_list, total_bytes >>
       ELSE IF ~accepted
       THEN /\ Finish(CommandResponseError(CMD_FLASH_DUMP, Header.ack, Header.length))
            /\ send_queue' = AfterHeader
            /\ rx_log' = Append(rx_log, Received(Header, <<>>))
            /\ UNCHANGED << payload_list, total_bytes >>
       ELSE /\ send_queue' = AfterPayload
            /\ rx_log' = Append(rx_log, Received(Header, PayloadRead))
            /\ IF ~ChecksumMatches(calculate_checksum(PayloadRead), Header.checksum)
               THEN /\ Finish(ChecksumError(Header.checksum, calculate_checksum(PayloadRead)))
                    /\ UNCHANGED << payload_list, total_bytes >>
               ELSE /\ payload_list' = PayloadListAppend(payload_list, PayloadRead)
                    /\ total_bytes' = total_bytes + Len(PayloadRead)
                    /\ IF DumpContinues(total_bytes', op.size)
                       THEN pc' = "flash_dump_next" /\ UNCHANGED outcome
                       ELSE Finish(Returns(Join(payload_list')))
    /\ UNCHANGED << written, op, cb_log, total_length, flash_inited, ncalls, nsent >>
    /\ UNCHANGED << sbp_vars, app_vars, chan_vars, dev_vars, sum_vars, tool_vars >>

\* flash_dump: the first response, read by _send_command.
flash_dump_first ==
    /\ pc = "flash_dump_first"
    /\ DumpResponse(~HeaderShort /\ SendCommandAccepts(Header.ack))

\* flash_dump: one pass of the loop.
flash_dump_next ==
    /\ pc = "flash_dump_next"
    /\ DumpResponse(~HeaderShort /\ DumpAccepts(Header.ack))

\* ------------------------------------------------------------------------
\* flash_erase
\* ------------------------------------------------------------------------
\* flash_erase, line 309: while ACK_FLASH_ERASE == ack
EraseContinues(ack) == ACK_FLASH_ERASE = ack

\* flash_erase, line 315: when the callback is called.
EraseCallbackFires(ack, erase_callback) == ACK_FLASH_ERASE = ack /\ erase_callback

\* The callback's arguments the other way round.
EraseCallbackArgsSwapped(checksum, length) == << length, checksum >>

\* flash_erase, line 316: erase_callback(i, block_size)
EraseCallbackArgs(checksum, length) == << checksum, length >>

\* flash_erase, line 318.
EraseAccepts(ack) == ack \in {ACK_FLASH_ERASE, ACK_SUCCESS}

\* flash_erase: the command is written.
flash_erase(start_address, size, erase_callback) ==
    /\ Begin(Call("flash_erase", start_address, size, NoData, 0, FALSE, erase_callback, FALSE))
    /\ written' = << PackCommand(CMD_FLASH_ERASE, start_address, size, 0) >>
    /\ pc' = "flash_erase"
    /\ outcome' = Pending
    /\ UNCHANGED << send_queue, flash_inited >>
    /\ UNCHANGED << sbp_vars, app_vars, chan_vars, dev_vars, sum_vars, tool_vars >>

\* flash_erase: one pass of the loop.
flash_erase_response ==
    /\ pc = "flash_erase"
    /\ send_queue' = AfterHeader
    /\ IF HeaderShort
       THEN /\ Finish(Raises("struct.error"))
            /\ UNCHANGED << rx_log, cb_log >>
       ELSE /\ rx_log' = Append(rx_log, Received(Header, <<>>))
            /\ cb_log' = IF EraseCallbackFires(Header.ack, op.callback)
                         THEN Append(cb_log, EraseCallbackArgs(Header.checksum, Header.length))
                         ELSE cb_log
            /\ IF ~EraseAccepts(Header.ack)
               THEN Finish(CommandResponseError(CMD_FLASH_ERASE, Header.ack, Header.length))
               ELSE IF EraseContinues(Header.ack)
               THEN pc' = "flash_erase" /\ UNCHANGED outcome
               ELSE Finish(Returns(<<>>))
    /\ UNCHANGED << written, op, payload_list, total_bytes, total_length,
                    flash_inited, ncalls, nsent >>
    /\ UNCHANGED << sbp_vars, app_vars, chan_vars, dev_vars, sum_vars, tool_vars >>

\* ------------------------------------------------------------------------
\* flash_program
\* ------------------------------------------------------------------------
\* The argument checks without the bound on len(data).
ProgramArgumentsUnbounded(start_address, data, file_format) ==
    /\ ~(start_address < 0)
    /\ ~(data.len = 0)
    /\ file_format \in {FLASH_FILE_FORMAT_NORMAL, FLASH_FILE_FORMAT_NB0, FLASH_FILE_FORMAT_OPS}

\* flash_program, lines 339-350: the argument checks.
ProgramArgumentsValid(start_address, data, file_format) ==
    /\ ~(start_address < 0)
    /\ ~(data.len = 0)
    /\ ~(data.len > FLASH_PROGRAM_MAX_WRITE_SIZE)
    /\ file_format \in {FLASH_FILE_FORMAT_NORMAL, FLASH_FILE_FORMAT_NB0, FLASH_FILE_FORMAT_OPS}

\* An initial response tested as _send_command tests it: FLASH_PARTLY passes.
ProgramInitialAcceptsPartly(ack) == ack \in {ACK_SUCCESS, ACK_FLASH_PARTLY}

\* flash_program, line 375: the ACK the initial response must have.
ProgramInitialAccepts(ack) == ACK_SUCCESS = ack

\* flash_program, lines 385 and 394.
ProgramAccepts(ack) == ack \in {ACK_SUCCESS, ACK_FLASH_PARTLY, ACK_FLASH_VERIFY}

\* flash_program, line 389: while ACK_FLASH_PARTLY == ack
ProgramContinues(ack) == ACK_FLASH_PARTLY = ack

\* flash_program, line 391: program_callback(length, total_length)
ProgramCallbackArgs(checksum, length, total) == << length, total >>

\* flash_program: the signature has no verify_callback (a TypeError of the call),
\* the argument checks, read_back_verify, and the command.
flash_program(start_address, data, file_format, read_back_verify, program_callback, verify_callback) ==
    /\ Begin(Call("flash_program", start_address, 0, data, file_format,
                  read_back_verify, program_callback, verify_callback))
    /\ IF verify_callback
       THEN Finish(Raises("TypeError")) /\ written' = <<>>
       ELSE IF ~ProgramArgumentsValid(start_address, data, file_format)
       THEN Finish(Raises("ValueError")) /\ written' = <<>>
       ELSE IF read_back_verify
       THEN Finish(Raises("NotImplementedError")) /\ written' = <<>>
       ELSE /\ written' = << PackCommand(CMD_FLASH_PROGRAM, start_address,
                                         data.len, file_format) >>
            /\ pc' = "flash_program_initial"
            /\ outcome' = Pending
    /\ UNCHANGED << send_queue, flash_inited >>
    /\ UNCHANGED << sbp_vars, app_vars, chan_vars, dev_vars, sum_vars, tool_vars >>

\* flash_program: the initial response, then the data.
flash_program_initial ==
    /\ pc = "flash_program_initial"
    /\ send_queue' = AfterHeader
    /\ IF HeaderShort
       THEN /\ Finish(Raises("struct.error"))
            /\ UNCHANGED << rx_log, written >>
       ELSE /\ rx_log' = Append(rx_log, Received(Header, <<>>))
            /\ IF ~ProgramInitialAccepts(Header.ack)
               THEN /\ Finish(CommandResponseError(CMD_FLASH_PROGRAM, Header.ack, Header.length))
                    /\ UNCHANGED written
               ELSE /\ written' = Append(written, op.data.bytes)
                    /\ pc' = "flash_program_first"
                    /\ UNCHANGED outcome
    /\ UNCHANGED << op, cb_log, payload_list, total_bytes, total_length,
                    flash_inited, ncalls, nsent >>
    /\ UNCHANGED << sbp_vars, app_vars, chan_vars, dev_vars, sum_vars, tool_vars >>

\* flash_program: the first response after the data.
flash_program_first ==
    /\ pc = "flash_program_first"
    /\ send_queue' = AfterHeader
    /\ IF HeaderShort
       THEN /\ Finish(Raises("struct.error"))
            /\ UNCHANGED << rx_log, total_length >>
       ELSE /\ rx_log' = Append(rx_log, Received(Header, <<>>))
            /\ IF ~ProgramAccepts(Header.ack)
               THEN /\ Finish(CommandResponseError(CMD_FLASH_PROGRAM, Header.ack, Header.length))
                    /\ UNCHANGED total_length
               ELSE /\ total_length' = Header.length
                    /\ IF ProgramContinues(Header.ack)
                       THEN pc' = "flash_program_next" /\ UNCHANGED outcome
                       ELSE Finish(Returns(<<>>))
    /\ UNCHANGED << written, op, cb_log, payload_list, total_bytes,
                    flash_inited, ncalls, nsent >>
    /\ UNCHANGED << sbp_vars, app_vars, chan_vars, dev_vars, sum_vars, tool_vars >>

\* flash_program: one pass of the loop, entered on a FLASH_PARTLY response: the
\* callback for that response, then the next response.
flash_program_next ==
    /\ pc = "flash_program_next"
    /\ cb_log' = IF op.callback
                 THEN Append(cb_log, ProgramCallbackArgs(rx_log[Len(rx_log)].checksum,
                                                         rx_log[Len(rx_log)].length,
                                                         total_length))
                 ELSE cb_log
    /\ send_queue' = AfterHeader
    /\ IF HeaderShort
       THEN /\ Finish(Raises("struct.error"))
            /\ UNCHANGED << rx_log, total_length >>
       ELSE /\ rx_log' = Append(rx_log, Received(Header, <<>>))
            /\ IF ~ProgramAccepts(Header.ack)
               THEN /\ Finish(CommandResponseError(CMD_FLASH_PROGRAM, Header.ack, Header.length))
                    /\ UNCHANGED total_length
               ELSE /\ total_length' = total_length + Header.length
                    /\ IF ProgramContinues(Header.ack)
                       THEN pc' = "flash_program_next" /\ UNCHANGED outcome
                       ELSE Finish(Returns(<<>>))
    /\ UNCHANGED << written, op, payload_list, total_bytes, flash_inited, ncalls, nsent >>
    /\ UNCHANGED << sbp_vars, app_vars, chan_vars, dev_vars, sum_vars, tool_vars >>

\* ------------------------------------------------------------------------
\* The caller
\* ------------------------------------------------------------------------
\* The caller has the return value or the exception of the call and the data
\* its callback collected; the locals of the call are gone, and the next call
\* starts with a callback list of its own.
caller_continues ==
    /\ pc = "done"
    /\ pc' = "idle"
    /\ op' = SimpleCall("none")
    /\ outcome' = Pending
    /\ written' = <<>>
    /\ rx_log' = <<>>
    /\ cb_log' = <<>>
    /\ payload_list' = <<>>
    /\ total_bytes' = 0
    /\ total_length' = 0
    /\ nsent' = 0
    /\ UNCHANGED << send_queue, flash_inited, ncalls >>
    /\ UNCHANGED << sbp_vars, app_vars, chan_vars, dev_vars, sum_vars, tool_vars >>

\* ------------------------------------------------------------------------
\* The specification
\* ------------------------------------------------------------------------
DeviceResponds ==
    \E ackcode \in Acks, shape \in Shapes :
        queue_rkl_response(ackcode, shape.checksum, shape.length, shape.payload)

CallFlashDump == \E address \in Addresses, size \in 0 .. MaxSize : flash_dump(address, size)

CallFlashErase ==
    \E start_address \in Addresses, size \in 1 .. MaxSize, erase_callback \in BOOLEAN :
        flash_erase(start_address, size, erase_callback)

CallFlashProgram ==
    \E start_address \in Addresses \cup {-1}, data \in DataSet, file_format \in FileFormats,
       read_back_verify \in BOOLEAN, program_callback \in BOOLEAN, verify_callback \in BOOLEAN :
        flash_program(start_address, data, file_format, read_back_verify,
                      program_callback, verify_callback)

Next ==
    \/ DeviceResponds
    \/ flash_initial
    \/ flash_initial_response
    \/ getver
    \/ getver_response
    \/ flash_get_capacity
    \/ flash_get_capacity_response
    \/ reset
    \/ CallFlashDump
    \/ flash_dump_first
    \/ flash_dump_next
    \/ CallFlashErase
    \/ flash_erase_response
    \/ CallFlashProgram
    \/ flash_program_initial
    \/ flash_program_first
    \/ flash_program_next
    \/ caller_continues

Spec == Init /\ [][Next]_vars

\* ------------------------------------------------------------------------
\* SerialBootProtocol (pyatk/boot.py)
\* ------------------------------------------------------------------------
CMD_READ_MEMORY == 257
CMD_WRITE_MEMORY == 514
CMD_WRITE_FILE == 1028
CMD_GET_STATUS == 1285
CMD_REENUMERATE_USB == 2313

DATA_SIZE_BYTE == 8
DATA_SIZE_HALFWORD == 16
DATA_SIZE_WORD == 32

FILE_TYPE_APPLICATION == 170
FILE_TYPE_CSF == 204
FILE_TYPE_DCD == 238

\* A 32-bit status word is held as its four bytes, most significant first
\* (0x12343412 is << 18, 52, 52, 18 >>).
HAB_PASSED == << 240, 240, 240, 240 >>
HAB_FAILURE == << 57, 57, 57, 57 >>
BOOT_PROTOCOL_COMPLETE == << 136, 136, 136, 136 >>
ACK_PRODUCTION_PART == << 18, 52, 52, 18 >>
ACK_ENGINEERING_PART == << 86, 120, 120, 86 >>
ACK_WRITE_SUCCESS == << 18, 138, 138, 18 >>

\* reenumerate_usb: the response it expects, as read.
REENUMERATE_RESPONSE == << 137, 35, 35, 137 >>

\* write_file, line 233: chunk_size
chunk_size == 1024

\* ">B"
PackU8(v) == << v % 256 >>

\* A 32-bit argument (an address, a value to write) is held as its two 16-bit
\* halves, hi * 65536 + lo with lo in 0 .. 65535, so that 0xBEEFCAFE and 2^32
\* are within reach: hi is negative for a negative number and above 65535 for
\* a number of 2^32 or more.
Word(hi, lo) == [hi |-> hi, lo |-> lo]

\* "<I" in the place of ">I".
PackWordLittleEndian(w) == << w.lo % 256, w.lo \div 256, w.hi % 256, w.hi \div 256 >>

\* ">I" of such an argument.
PackWord(w) == PackU16(w.hi) \o PackU16(w.lo)

\* "x" pad bytes of a struct format, and the "\x00" padding of _write_command.
Pad(n) == [i \in 1 .. n |-> 0]

\* struct.unpack("<I", status_raw)[0]
UnpackStatus(status_raw) ==
    << status_raw[4], status_raw[3], status_raw[2], status_raw[1] >>

\* _write_command without its padding: the command goes out as it was packed.
WriteCommandUnpadded(command) == command

\* _write_command: the bytes it hands to channel.write.
write_command(command) ==
    IF Len(command) < 16 THEN command \o Pad(16 - Len(command)) ELSE command

\* The command of each operation as struct.pack builds it.
GetStatusCommand == PackU16(CMD_GET_STATUS)

ReadMemoryCommand(address, datasize, length) ==
    PackU16(CMD_READ_MEMORY) \o PackWord(address) \o PackU8(datasize) \o PackU32(length)

\* The value as the last bytes of the frame: a byte at offset 15, a half-word
\* at offsets 14-15.
WriteMemoryCommandTrailing(address, datasize, data) ==
    PackU16(CMD_WRITE_MEMORY) \o PackWord(address) \o PackU8(datasize) \o Pad(4)
        \o (IF datasize = DATA_SIZE_BYTE THEN Pad(4) \o PackU8(data.lo)
            ELSE IF datasize = DATA_SIZE_HALFWORD THEN Pad(3) \o PackU16(data.lo)
            ELSE IF datasize = DATA_SIZE_WORD THEN PackWord(data)
            ELSE <<>>)

WriteMemoryCommand(address, datasize, data) ==
    PackU16(CMD_WRITE_MEMORY) \o PackWord(address) \o PackU8(datasize) \o Pad(4)
        \o (IF datasize = DATA_SIZE_BYTE THEN Pad(3) \o PackU8(data.lo)
            ELSE IF datasize = DATA_SIZE_HALFWORD THEN Pad(2) \o PackU16(data.lo)
            ELSE IF datasize = DATA_SIZE_WORD THEN PackWord(data)
            ELSE <<>>)

\* struct.pack takes the value for "B", "H" or "I": it is within the range
\* of the format, or struct.error is raised.
DataFits(datasize, data) ==
    IF datasize = DATA_SIZE_BYTE THEN data.hi = 0 /\ data.lo <= 255
    ELSE IF datasize = DATA_SIZE_HALFWORD THEN data.hi = 0
    ELSE data.hi >= 0 /\ data.hi <= 65535

WriteFileCommand(filetype, address, length) ==
    PackU16(CMD_WRITE_FILE) \o PackWord(address) \o Pad(1) \o PackU32(length)
        \o Pad(4) \o PackU8(filetype)

ReenumerateCommand(serialnum) == PackU16(CMD_REENUMERATE_USB) \o Pad(7) \o serialnum

\* read_memory and write_memory: the checks of datasize and address.
DataSizeValid(datasize) == datasize \in {DATA_SIZE_BYTE, DATA_SIZE_HALFWORD, DATA_SIZE_WORD}

\* The check of the lower bound alone.
AddressBelowRange(address) == address.hi < 0

\* address < 0 or address > 0xffffffff
AddressOutOfRange(address) == address.hi < 0 \/ address.hi > 65535

AddressValid(address) == ~AddressOutOfRange(address)

\* Takes every status word for an ACK.
IsAckAny(ack) == TRUE

\* _read_ack, line 109.
IsAck(ack) == ack \in {ACK_PRODUCTION_PART, ACK_ENGINEERING_PART}

\* Accepts every status word as the ACK.
WriteStatusAny(ack) == TRUE

\* write_memory, line 220.
WriteStatusOk(ack) == ack = ACK_WRITE_SUCCESS

\* Accepts every status word as the end of the boot protocol.
BootCompleteAny(status) == TRUE

\* complete_boot, line 266.
BootComplete(status) == ~(status # BOOT_PROTOCOL_COMPLETE)

\* A call of a method of SerialBootProtocol with its arguments.
BootCall(name, address, datasize, length, data, filetype, stream, serialnum) ==
    [name |-> name, address |-> address, datasize |-> datasize, length |-> length,
     data |-> data, filetype |-> filetype, stream |-> stream, serialnum |-> serialnum]

SimpleBootCall(name) == BootCall(name, Word(0, 0), 0, 0, Word(0, 0), 0, 0, <<>>)

\* boot.CommandResponseError(msg)
BootCommandResponseError == Raises("boot.CommandResponseError")

\* MockChannel.queue_data(data)
queue_data(data) ==
    /\ nsent < MaxResponses
    /\ Len(send_queue) <= MaxBacklog
    /\ pc # "done"
    /\ pc # "idle" \/ ncalls < MaxCalls
    /\ send_queue' = send_queue \o data
    /\ nsent' = nsent + 1
    /\ UNCHANGED << written, pc, op, rx_log, cb_log, payload_list, total_bytes,
                    total_length, outcome, flash_inited, ncalls >>
    /\ UNCHANGED << sbp_vars, app_vars, chan_vars, dev_vars, sum_vars, tool_vars >>

\* _read_status: the bytes channel.read(4) returns, and what is left queued.
StatusRaw == ChannelRead(send_queue, 4)

StatusShort == Len(StatusRaw) # 4

AfterStatus == ChannelRest(send_queue, 4)

\* What an SBP action leaves alone besides the channel and the call.
SbpFrame ==
    /\ UNCHANGED << cb_log, payload_list, total_bytes, total_length, flash_inited >>
    /\ UNCHANGED << app_vars, chan_vars, dev_vars, sum_vars, tool_vars >>

\* The start of a call of SerialBootProtocol.
BootBegin(call) ==
    /\ pc = "idle"
    /\ ncalls < MaxCalls
    /\ ncalls' = ncalls + 1
    /\ op' = call
    /\ UNCHANGED << rx_log, nsent, send_queue >>
    /\ SbpFrame

\* A step of a call that reads `raw` from the channel.
BootRead(raw, rest) ==
    /\ send_queue' = rest
    /\ rx_log' = Append(rx_log, raw)
    /\ UNCHANGED << op, ncalls, nsent >>
    /\ SbpFrame

\* get_status: the command is written.
get_status ==
    /\ BootBegin(SimpleBootCall("get_status"))
    /\ written' = << write_command(GetStatusCommand) >>
    /\ pc' = "get_status"
    /\ outcome' = Pending
    /\ UNCHANGED sbp_vars

\* get_status: _read_status.
get_status_response ==
    /\ pc = "get_status"
    /\ BootRead(StatusRaw, AfterStatus)
    /\ IF StatusShort
       THEN Finish(BootCommandResponseError)
       ELSE Finish(Returns(UnpackStatus(StatusRaw)))
    /\ UNCHANGED << written, sbp_vars >>

\* complete_boot: get_status writes its command.
complete_boot ==
    /\ BootBegin(SimpleBootCall("complete_boot"))
    /\ written' = << write_command(GetStatusCommand) >>
    /\ pc' = "complete_boot"
    /\ outcome' = Pending
    /\ UNCHANGED sbp_vars

\* complete_boot: the status read and tested.
complete_boot_response ==
    /\ pc = "complete_boot"
    /\ BootRead(StatusRaw, AfterStatus)
    /\ IF StatusShort
       THEN Finish(BootCommandResponseError)
       ELSE IF ~BootComplete(UnpackStatus(StatusRaw))
       THEN Finish(BootCommandResponseError)
       ELSE Finish(Returns(UnpackStatus(StatusRaw)))
    /\ UNCHANGED << written, sbp_vars >>

\* write_memory: the argument checks and the command.
write_memory(address, datasize, data) ==
    /\ BootBegin(BootCall("write_memory", address, datasize, 0, data, 0, 0, <<>>))
    /\ IF ~DataSizeValid(datasize) \/ ~AddressValid(address)
       THEN Finish(Raises("ValueError")) /\ written' = <<>>
       ELSE IF ~DataFits(datasize, data)
       THEN Finish(Raises("struct.error")) /\ written' = <<>>
       ELSE /\ written' = << write_command(WriteMemoryCommand(address, datasize, data)) >>
            /\ pc' = "write_memory_ack"
            /\ outcome' = Pending
    /\ UNCHANGED sbp_vars

\* write_memory: _read_ack.
write_memory_ack ==
    /\ pc = "write_memory_ack"
    /\ BootRead(StatusRaw, AfterStatus)
    /\ IF StatusShort
       THEN Finish(BootCommandResponseError)
       ELSE IF ~IsAck(UnpackStatus(StatusRaw))
       THEN Finish(BootCommandResponseError)
       ELSE pc' = "write_memory_status" /\ UNCHANGED outcome
    /\ UNCHANGED << written, sbp_vars >>

\* write_memory: the write acknowledge code.
write_memory_status ==
    /\ pc = "write_memory_status"
    /\ BootRead(StatusRaw, AfterStatus)
    /\ IF StatusShort
       THEN Finish(BootCommandResponseError)
       ELSE IF WriteStatusOk(UnpackStatus(StatusRaw))
       THEN Finish(Returns(<< TRUE >>))
       ELSE Finish(BootCommandResponseError)
    /\ UNCHANGED << written, sbp_vars >>

\* write_file: the chunk stream.read(chunk_size) returns; the stream is read
\* from its start by this loop alone, so it stands at bytes_consumed.
StreamChunk(stream, consumed) == Min(chunk_size, stream - consumed)

\* write_file, line 236: chunk = stream.read(chunk_size)
WriteFileChunk(stream, consumed, length) == StreamChunk(stream, consumed)

\* write_file, line 235: while bytes_consumed < length
WriteFileContinues(consumed, length) == consumed < length

\* write_file: the command is written.
write_file(filetype, address, length, stream) ==
    /\ BootBegin(BootCall("write_file", address, 0, length, Word(0, 0), filetype, stream, <<>>))
    /\ written' = << write_command(WriteFileCommand(filetype, address, length)) >>
    /\ pc' = "write_file_ack"
    /\ outcome' = Pending
    /\ bytes_consumed' = 0
    /\ stream_written' = <<>>

\* write_file: _read_ack, then the loop is entered or skipped.
write_file_ack ==
    /\ pc = "write_file_ack"
    /\ BootRead(StatusRaw, AfterStatus)
    /\ IF StatusShort
       THEN Finish(BootCommandResponseError)
       ELSE IF ~IsAck(UnpackStatus(StatusRaw))
       THEN Finish(BootCommandResponseError)
       ELSE IF WriteFileContinues(bytes_consumed, op.length)
       THEN pc' = "write_file_stream" /\ UNCHANGED outcome
       ELSE Finish(Returns(<<>>))
    /\ UNCHANGED << written, sbp_vars >>

\* write_file: one pass of the loop.
write_file_stream ==
    /\ pc = "write_file_stream"
    /\ LET chunk == WriteFileChunk(op.stream, bytes_consumed, op.length)
       IN IF chunk = 0
          THEN /\ Finish(Raises("ValueError"))
               /\ UNCHANGED sbp_vars
          ELSE /\ bytes_consumed' = bytes_consumed + chunk
               /\ stream_written' = Append(stream_written, chunk)
               /\ IF WriteFileContinues(bytes_consumed + chunk, op.length)
                  THEN pc' = "write_file_stream" /\ UNCHANGED outcome
                  ELSE Finish(Returns(<<>>))
    /\ UNCHANGED << send_queue, written, op, rx_log, ncalls, nsent >>
    /\ SbpFrame

\* reenumerate_usb: the check of the serial number and the command.
reenumerate_usb(serialnum) ==
    /\ BootBegin(BootCall("reenumerate_usb", Word(0, 0), 0, 0, Word(0, 0), 0, 0, serialnum))
    /\ IF Len(serialnum) # 4
       THEN Finish(Raises("ValueError")) /\ written' = <<>>
       ELSE /\ written' = << write_command(ReenumerateCommand(serialnum)) >>
            /\ pc' = "reenumerate_usb"
            /\ outcome' = Pending
    /\ UNCHANGED sbp_vars

\* reenumerate_usb: the response.
reenumerate_usb_response ==
    /\ pc = "reenumerate_usb"
    /\ BootRead(StatusRaw, AfterStatus)
    /\ IF StatusRaw # REENUMERATE_RESPONSE
       THEN Finish(BootCommandResponseError)
       ELSE Finish(Returns(<<>>))
    /\ UNCHANGED << written, sbp_vars >>

\* read_memory: the argument checks and the command.
read_memory(address, datasize, length) ==
    /\ BootBegin(BootCall("read_memory", address, datasize, length, Word(0, 0), 0, 0, <<>>))
    /\ IF ~DataSizeValid(datasize) \/ ~AddressValid(address)
       THEN Finish(Raises("ValueError")) /\ written' = <<>>
       ELSE /\ written' = << write_command(ReadMemoryCommand(address, datasize, length)) >>
            /\ pc' = "read_memory_ack"
            /\ outcome' = Pending
    /\ UNCHANGED sbp_vars

\* read_memory: an element of retarray, from the bytes read for it (the host
\* and the default byteorder are little-endian: no byteswap).
\* retarray read in the order the bytes came in.
ReverseNot(s) == s

RECURSIVE Reverse(_)
Reverse(s) == IF s = <<>> THEN <<>> ELSE Append(Reverse(Tail(s)), Head(s))

\* read_memory that returns retarray whatever the length.
ReadMemoryArray(elements, length) ==
    [shape |-> "array", elements |-> [i \in 1 .. Len(elements) |-> Reverse(elements[i])]]

\* read_memory: retarray[0] when length is 1, retarray otherwise.  An element
\* is held as its bytes, most significant first.
ReadMemoryValue(elements, length) ==
    IF length = 1 THEN [shape |-> "scalar", elements |-> << Reverse(elements[1]) >>]
    ELSE [shape |-> "array", elements |-> [i \in 1 .. Len(elements) |-> Reverse(elements[i])]]

\* read_memory: _read_ack.
read_memory_ack ==
    /\ pc = "read_memory_ack"
    /\ BootRead(StatusRaw, AfterStatus)
    /\ IF StatusShort
       THEN Finish(BootCommandResponseError)
       ELSE IF ~IsAck(UnpackStatus(StatusRaw))
       THEN Finish(BootCommandResponseError)
       ELSE IF op.length > 0
       THEN pc' = "read_memory_data" /\ UNCHANGED outcome
       ELSE Finish(Returns(ReadMemoryValue(<<>>, op.length)))
    /\ UNCHANGED << written, sbp_vars >>

\* Every element read as a word.
ElementSizeWord(datasize) == 4

\* read_memory, line 166: datasize = datasize / 8
ElementSize(datasize) == datasize \div 8

\* read_memory: one element of the data.
read_memory_data ==
    /\ pc = "read_memory_data"
    /\ LET datasize == ElementSize(op.datasize)
           data == ChannelRead(send_queue, datasize)
           elements == SubSeq(rx_log, 2, Len(rx_log)) \o << data >>
       IN /\ BootRead(data, ChannelRest(send_queue, datasize))
          /\ IF Len(data) # datasize
             THEN Finish(BootCommandResponseError)
             ELSE IF Len(elements) < op.length
             THEN pc' = "read_memory_data" /\ UNCHANGED outcome
             ELSE Finish(Returns(ReadMemoryValue(elements, op.length)))
    /\ UNCHANGED << written, sbp_vars >>

\* The caller of SerialBootProtocol between two calls.
boot_caller_continues ==
    /\ pc = "done"
    /\ pc' = "idle"
    /\ op' = SimpleCall("none")
    /\ outcome' = Pending
    /\ written' = <<>>
    /\ rx_log' = <<>>
    /\ nsent' = 0
    /\ bytes_consumed' = 0
    /\ stream_written' = <<>>
    /\ UNCHANGED << send_queue, ncalls >>
    /\ SbpFrame

\* What the mock device answers with: the status words as the tests queue
\* them, a short answer, the answer to reenumerate_usb.
BootResponses ==
    { ACK_PRODUCTION_PART, ACK_ENGINEERING_PART, ACK_WRITE_SUCCESS,
      BOOT_PROTOCOL_COMPLETE, HAB_PASSED, REENUMERATE_RESPONSE, << 170, 187 >> }

\* Addresses: -1, 0x25, 0xBEEFCAFE, 0xFFFFFFFF and 2^32.
BootAddresses == {Word(-1, 65535), Word(0, 37), Word(48879, 51966), Word(65535, 65535), Word(65536, 0)}

\* Values to write: 0x01, 0xFE, 0x0100, 0xFEED, 0x00010000 and 0xCAFEFEED.
BootValues == {Word(0, 1), Word(0, 254), Word(0, 256), Word(0, 65261), Word(1, 0), Word(51966, 65261)}

\* Stream sizes and lengths asked of write_file, around the chunk size.
StreamSizes == {0, 1, chunk_size, chunk_size + 1, 2 * chunk_size}

DeviceAnswers == \E data \in BootResponses : queue_data(data)

CallWriteMemory ==
    \E address \in BootAddresses, datasize \in {DATA_SIZE_BYTE, DATA_SIZE_HALFWORD, DATA_SIZE_WORD, 99},
       data \in BootValues :
        write_memory(address, datasize, data)

CallReadMemory ==
    \E address \in BootAddresses, datasize \in {DATA_SIZE_BYTE, DATA_SIZE_HALFWORD, DATA_SIZE_WORD, 99},
       length \in 0 .. MaxSize - 1 :
        read_memory(address, datasize, length)

CallWriteFile ==
    \E filetype \in {FILE_TYPE_APPLICATION, FILE_TYPE_DCD}, address \in {Word(0, 37)},
       length \in StreamSizes \cup {chunk_size + 2}, stream \in StreamSizes :
        write_file(filetype, address, length, stream)

CallReenumerateUsb ==
    \E serialnum \in { << 1, 2, 3, 4 >>, << 1, 2, 3 >> } : reenumerate_usb(serialnum)

NextBoot ==
    \/ DeviceAnswers
    \/ get_status
    \/ get_status_response
    \/ complete_boot
    \/ complete_boot_response
    \/ CallWriteMemory
    \/ write_memory_ack
    \/ write_memory_status
    \/ CallWriteFile
    \/ write_file_ack
    \/ write_file_stream
    \/ CallReenumerateUsb
    \/ reenumerate_usb_response
    \/ CallReadMemory
    \/ read_memory_ack
    \/ read_memory_data
    \/ boot_caller_continues

SpecBoot == Init /\ [][NextBoot]_vars

\* A device that never answers: every operation of the two protocols writes
\* its command and fails on its first read of the empty channel.
NextSilent ==
    \/ flash_initial
    \/ flash_initial_response
    \/ getver
    \/ getver_response
    \/ flash_get_capacity
    \/ flash_get_capacity_response
    \/ reset
    \/ CallFlashDump
    \/ flash_dump_first
    \/ CallFlashErase
    \/ flash_erase_response
    \/ CallFlashProgram
    \/ flash_program_initial
    \/ get_status
    \/ get_status_response
    \/ complete_boot
    \/ complete_boot_response
    \/ CallWriteMemory
    \/ write_memory_ack
    \/ CallWriteFile
    \/ write_file_ack
    \/ CallReenumerateUsb
    \/ reenumerate_usb_response
    \/ CallReadMemory
    \/ read_memory_ack
    \/ boot_caller_continues

SpecSilent == Init /\ [][NextSilent]_vars

\* ------------------------------------------------------------------------
\* The command-line tools: ToolkitApplication of atk.py, bin/mx-flashtool.py
\* and bin/mx-toolkit.py
\* ------------------------------------------------------------------------
Tools == {"atk", "mx-flashtool", "mx-toolkit"}

Modes == {"ram_kernel", "application"}

\* What a run leaves alone: the protocol objects and the channel classes are
\* modelled on their own.
AppFrame == UNCHANGED << rkl_vars, sbp_vars, chan_vars, dev_vars, sum_vars, tool_vars >>

\* A call the run makes, entered in the log; a call that raises is followed
\* in the log by the exception it raised.
Logged(name, result) ==
    IF result = "ok" THEN app_log \o << name >> ELSE app_log \o << name, result >>

\* The run is over.
Exit(kind) ==
    /\ app_pc' = "exited"
    /\ app_exit' = kind
    /\ app_exc' = "none"

\* An exception leaves run_ram_kernel, run_application or the steps before
\* them.  atk.py and mx-flashtool.py: run() has a finally that closes the
\* channel.  mx-toolkit.py: run() has none (lines 303-309 are comments) and the
\* exception ends in main().
TopRaise(kind) ==
    IF app_op.tool = "mx-toolkit"
    THEN Exit(kind)
    ELSE /\ app_pc' = "finally_close"
         /\ app_exc' = kind
         /\ UNCHANGED app_exit

\* The run came to the end of run_ram_kernel or run_application.
TopReturn ==
    IF app_op.tool = "mx-toolkit"
    THEN Exit("return")
    ELSE /\ app_pc' = "finally_close"
         /\ app_exc' = "none"
         /\ UNCHANGED app_exit

\* The tool is started on a USB or a serial channel, for an application or
\* for a RAM kernel.
app_start(tool, usb, mode) ==
    /\ app_pc = "start"
    /\ app_op' = [tool |-> tool, usb |-> usb, mode |-> mode]
    /\ app_pc' = "open"
    /\ UNCHANGED << chan_open, app_log, attempts, app_ret, app_exc, app_exit >>
    /\ AppFrame

\* channel.open() at the start of the run.  mx-toolkit.py leaves with
\* sys.exit(1) when it fails; the others let the IOError go up.
app_open(result) ==
    /\ app_pc = "open"
    /\ app_log' = Logged("open", result)
    /\ IF result = "ok"
       THEN /\ chan_open' = TRUE
            /\ app_pc' = "get_status"
            /\ UNCHANGED << app_exc, app_exit >>
       ELSE /\ UNCHANGED chan_open
            /\ IF app_op.tool = "mx-toolkit" THEN Exit("SystemExit") ELSE TopRaise(result)
    /\ UNCHANGED << app_op, attempts, app_ret >>
    /\ AppFrame

\* The steps between open and the download, in the order of the tool:
\* get_status, memtest, mem_initialize in atk.py and mx-flashtool.py,
\* get_status, mem_initialize, mem_test in mx-toolkit.py; then
\* run_ram_kernel or run_application.
StepAfter(name) ==
    LET download == IF app_op.mode = "ram_kernel" THEN "run_image_from_file" ELSE "run_application"
    IN IF app_op.tool = "mx-toolkit"
       THEN (CASE name = "get_status" -> "mem_initialize" [] name = "mem_initialize" -> "memtest" [] OTHER -> download)
       ELSE (CASE name = "get_status" -> "memtest" [] name = "memtest" -> "mem_initialize" [] OTHER -> download)

\* A call of the serial boot protocol outside run_ram_kernel.
SbpCall(name, next, result) ==
    /\ app_pc = name
    /\ app_log' = Logged(name, result)
    /\ IF result = "ok"
       THEN app_pc' = next /\ UNCHANGED << app_exc, app_exit >>
       ELSE TopRaise(result)
    /\ UNCHANGED << app_op, chan_open, attempts, app_ret >>
    /\ AppFrame

\* status = self.sbp.get_status()
app_get_status(result) == SbpCall("get_status", StepAfter("get_status"), result)

\* What a statement inside memtest adds to the log: the exception it raised.
LoggedInside(result) == IF result = "ok" THEN app_log ELSE Append(app_log, result)

\* memtest / mem_test, self.sbp.write_memory(...) of the first and of the
\* second round; the first enters memtest in the log.
app_memtest_write(result) ==
    /\ app_pc \in {"memtest", "memtest_write_2"}
    /\ app_log' = IF app_pc = "memtest" THEN Logged("memtest", result) ELSE LoggedInside(result)
    /\ IF result = "ok"
       THEN /\ app_pc' = IF app_pc = "memtest" THEN "memtest_read_1" ELSE "memtest_read_2"
            /\ UNCHANGED << app_exc, app_exit >>
       ELSE TopRaise(result)
    /\ UNCHANGED << app_op, chan_open, attempts, app_ret >>
    /\ AppFrame

\* memtest / mem_test, check = self.sbp.read_memory_single(...) of the first
\* and of the second round: a read of one element, whose value is compared
\* and reported and changes nothing.
app_memtest_read(result) ==
    /\ app_pc \in {"memtest_read_1", "memtest_read_2"}
    /\ app_log' = LoggedInside(result)
    /\ IF result = "ok"
       THEN /\ app_pc' = IF app_pc = "memtest_read_1" THEN "memtest_write_2" ELSE StepAfter("memtest")
            /\ UNCHANGED << app_exc, app_exit >>
       ELSE TopRaise(result)
    /\ UNCHANGED << app_op, chan_open, attempts, app_ret >>
    /\ AppFrame

\* mem_initialize: one write_memory for each entry of the init file.
app_mem_initialize(result) == SbpCall("mem_initialize", StepAfter("mem_initialize"), result)

\* run_application: write_file is called with progress_callback, a keyword
\* that SerialBootProtocol.write_file does not have.
run_application ==
    /\ app_pc = "run_application"
    /\ app_log' = Logged("run_application", "TypeError")
    /\ TopRaise("TypeError")
    /\ UNCHANGED << app_op, chan_open, attempts, app_ret >>
    /\ AppFrame

\* run_ram_kernel: the RAM kernel image is loaded and started, then the
\* channel is re-initialised.
run_image_from_file(result) ==
    /\ app_pc = "run_image_from_file"
    /\ app_log' = Logged("run_image_from_file", result)
    /\ IF result = "ok"
       THEN /\ app_pc' = "channel_reinit"
            /\ app_ret' = "after_launch"
            /\ UNCHANGED << app_exc, app_exit >>
       ELSE TopRaise(result) /\ UNCHANGED app_ret
    /\ UNCHANGED << app_op, chan_open, attempts >>
    /\ AppFrame

\* self._usb: atk.py sets it in __init__ for both kinds of channel;
\* mx-flashtool.py and mx-toolkit.py set it only when they make a USBChannel.
UsbAttribute ==
    IF app_op.tool = "atk" THEN (IF app_op.usb THEN "true" ELSE "false")
    ELSE (IF app_op.usb THEN "true" ELSE "missing")

\* channel_reinit: `if self._usb:` and the close.
channel_reinit ==
    /\ app_pc = "channel_reinit"
    /\ attempts' = 0
    /\ IF UsbAttribute = "missing"
       THEN /\ app_log' = app_log \o << "channel_reinit", "AttributeError" >>
            /\ app_pc' = "reinit_raise"
            /\ app_exc' = "AttributeError"
            /\ UNCHANGED chan_open
       ELSE IF UsbAttribute = "false"
       THEN /\ app_log' = app_log \o << "channel_reinit" >>
            /\ app_pc' = "reinit_return"
            /\ UNCHANGED << chan_open, app_exc >>
       ELSE /\ app_log' = app_log \o << "channel_reinit", "close" >>
            /\ chan_open' = FALSE
            /\ app_pc' = "reinit_open"
            /\ UNCHANGED app_exc
    /\ UNCHANGED << app_op, app_ret, app_exit >>
    /\ AppFrame

\* The attempts channel_reinit makes: one in atk.py, `while attempts < 3` in
\* the two others.
ReinitAttempts(tool) == IF tool = "atk" THEN 1 ELSE 3

\* What channel_reinit raises when it gives up: atk.py lets the IOError of
\* open() go up, mx-toolkit.py raises IOError, mx-flashtool.py ToolkitError.
ReinitError(tool) == IF tool = "mx-flashtool" THEN "ToolkitError" ELSE "IOError"

\* channel_reinit: time.sleep(3) and one channel.open().
channel_reinit_open(result) ==
    /\ app_pc = "reinit_open"
    /\ app_log' = Logged("open", result)
    /\ IF result = "ok"
       THEN /\ chan_open' = TRUE
            /\ app_pc' = "reinit_return"
            /\ UNCHANGED << attempts, app_exc >>
       ELSE /\ UNCHANGED chan_open
            /\ attempts' = attempts + 1
            /\ IF attempts + 1 >= ReinitAttempts(app_op.tool)
               THEN app_pc' = "reinit_raise" /\ app_exc' = ReinitError(app_op.tool)
               ELSE app_pc' = "reinit_open" /\ UNCHANGED app_exc
    /\ UNCHANGED << app_op, app_ret, app_exit >>
    /\ AppFrame

\* channel_reinit raises into run_ram_kernel, which handles nothing there:
\* after the launch it is outside the try, after the reset it is in the
\* finally, where it replaces the exception of the sub-command.
channel_reinit_raises ==
    /\ app_pc = "reinit_raise"
    /\ TopRaise(app_exc)
    /\ UNCHANGED << app_op, chan_open, app_log, attempts, app_ret >>
    /\ AppFrame

\* channel_reinit returns to where it was called.
channel_reinit_returns ==
    /\ app_pc = "reinit_return"
    /\ app_pc' = IF app_ret = "after_launch"
                 THEN (IF app_op.tool = "mx-toolkit" THEN "flash_set_bbt" ELSE "flash_initial")
                 ELSE "final_get_status"
    /\ UNCHANGED << app_op, chan_open, app_log, attempts, app_ret, app_exc, app_exit >>
    /\ AppFrame

\* Where an exception of the kernel set-up calls (flash_set_bbt,
\* flash_initial, getver, flash_get_capacity) goes: in mx-toolkit.py they are
\* inside the try, whose except clauses swallow it before the finally; in
\* atk.py and mx-flashtool.py they are before the try and it leaves
\* run_ram_kernel.
SetupRaise(kind) ==
    IF app_op.tool = "mx-toolkit"
    THEN /\ app_pc' = "finally_reset"
         /\ app_exc' = "none"
         /\ UNCHANGED app_exit
    ELSE TopRaise(kind)

\* A RAM kernel call between the first channel_reinit and the sub-command.
SetupCall(name, next, result) ==
    /\ app_pc = name
    /\ app_log' = Logged(name, result)
    /\ IF result = "ok"
       THEN app_pc' = next /\ UNCHANGED << app_exc, app_exit >>
       ELSE SetupRaise(result)
    /\ UNCHANGED << app_op, chan_open, attempts, app_ret >>
    /\ AppFrame

\* kernel.flash_set_bbt(options.set_bbt_flag), mx-toolkit.py only.
flash_set_bbt(result) == SetupCall("flash_set_bbt", "flash_initial", result)

\* kernel.flash_initial()
app_flash_initial(result) == SetupCall("flash_initial", "getver", result)

\* kernel.getver()
app_getver(result) == SetupCall("getver", "flash_get_capacity", result)

\* kernel.flash_get_capacity()
app_flash_get_capacity(result) == SetupCall("flash_get_capacity", "subcommand", result)

\* The exception that is pending when the finally starts: none in
\* mx-toolkit.py, whose except clauses swallow it; the one of the sub-command
\* in atk.py and mx-flashtool.py, whose except clause raises it again.
PendingAfterSubcommand(tool, result) ==
    IF result = "ok" \/ tool = "mx-toolkit" THEN "none" ELSE result

\* Where the run goes when the sub-command ends: the finally, whatever the
\* result.
AfterSubcommandNoFinally(result) == IF result = "ok" THEN "finally_reset" ELSE "finally_done"

AfterSubcommand(result) == "finally_reset"

\* The flash sub-command (program, dump, erase, test).
subcommand(result) ==
    /\ app_pc = "subcommand"
    /\ app_log' = Logged("subcommand", result)
    /\ app_pc' = AfterSubcommand(result)
    /\ app_exc' = PendingAfterSubcommand(app_op.tool, result)
    /\ UNCHANGED << app_op, chan_open, attempts, app_ret, app_exit >>
    /\ AppFrame

\* finally: kernel.reset().  An exception raised here leaves the finally at
\* once and replaces the pending one.
finally_reset(result) ==
    /\ app_pc = "finally_reset"
    /\ app_log' = Logged("reset", result)
    /\ IF result = "ok"
       THEN /\ app_pc' = "channel_reinit"
            /\ app_ret' = "finally"
            /\ UNCHANGED << app_exc, app_exit >>
       ELSE TopRaise(result) /\ UNCHANGED app_ret
    /\ UNCHANGED << app_op, chan_open, attempts >>
    /\ AppFrame

\* finally: time.sleep(2) and self.sbp.get_status().
final_get_status(result) ==
    /\ app_pc = "final_get_status"
    /\ app_log' = Logged("get_status", result)
    /\ IF result = "ok"
       THEN app_pc' = "finally_done" /\ UNCHANGED << app_exc, app_exit >>
       ELSE TopRaise(result)
    /\ UNCHANGED << app_op, chan_open, attempts, app_ret >>
    /\ AppFrame

\* The finally of run_ram_kernel is over: the pending exception goes on, or
\* run_ram_kernel returns.
finally_done ==
    /\ app_pc = "finally_done"
    /\ IF app_exc = "none" THEN TopReturn ELSE TopRaise(app_exc)
    /\ UNCHANGED << app_op, chan_open, app_log, attempts, app_ret >>
    /\ AppFrame

\* How run() of atk.py and mx-flashtool.py ends: boot.CommandResponseError is
\* turned into sys.exit(1), anything else goes up to main().
RunExit(exc) ==
    IF exc = "none" THEN "return"
    ELSE IF exc = "boot.CommandResponseError" THEN "SystemExit"
    ELSE exc

\* run(), finally: self.channel.close().  atk.py and mx-flashtool.py only.
finally_close ==
    /\ app_pc = "finally_close"
    /\ app_log' = app_log \o << "close" >>
    /\ chan_open' = FALSE
    /\ Exit(RunExit(app_exc))
    /\ UNCHANGED << app_op, attempts, app_ret >>
    /\ AppFrame

\* The next invocation of a tool, as a new process.
app_restart ==
    /\ app_pc = "exited"
    /\ app_pc' = "start"
    /\ app_op' = [tool |-> "none", usb |-> FALSE, mode |-> "none"]
    /\ chan_open' = FALSE
    /\ app_log' = << >>
    /\ attempts' = 0
    /\ app_ret' = "none"
    /\ app_exc' = "none"
    /\ app_exit' = "none"
    /\ AppFrame

OpenResults == {"ok", "IOError"}

SbpResults == {"ok", "boot.CommandResponseError", "IOError"}

RklResults == {"ok", "ramkernel.CommandResponseError", "IOError"}

NextApp ==
    \/ \E tool \in Tools, usb \in BOOLEAN, mode \in Modes : app_start(tool, usb, mode)
    \/ \E result \in OpenResults : app_open(result)
    \/ \E result \in SbpResults : app_get_status(result)
    \/ \E result \in SbpResults : app_memtest_write(result)
    \/ \E result \in SbpResults : app_memtest_read(result)
    \/ \E result \in SbpResults : app_mem_initialize(result)
    \/ run_application
    \/ \E result \in SbpResults : run_image_from_file(result)
    \/ channel_reinit
    \/ \E result \in OpenResults : channel_reinit_open(result)
    \/ channel_reinit_raises
    \/ channel_reinit_returns
    \/ \E result \in RklResults : flash_set_bbt(result)
    \/ \E result \in RklResults : app_flash_initial(result)
    \/ \E result \in RklResults : app_getver(result)
    \/ \E result \in RklResults : app_flash_get_capacity(result)
    \/ \E result \in RklResults : subcommand(result)
    \/ \E result \in RklResults : finally_reset(result)
    \/ \E result \in SbpResults : final_get_status(result)
    \/ finally_done
    \/ finally_close
    \/ app_restart

SpecApp == Init /\ [][NextApp]_vars

\* ------------------------------------------------------------------------
\* The channels: UARTChannel of pyatk/channel/uart.py, USBChannel of
\* pyatk/channel/usbdev.py and UARTChannel of pyatk/channel.py
\* ------------------------------------------------------------------------
\* The longest read asked for, and the most packets a USB read waits for.
MaxRead == 3

MaxPackets == 3

ChannelFrame == UNCHANGED << rkl_vars, sbp_vars, app_vars, dev_vars, sum_vars, tool_vars >>

\* What the serial port or the IN endpoint hands over in one read: nothing
\* (the port timed out, or a zero-length packet) or the next bytes.
Deliveries == {<< >>, << 1 >>, << 1, 2 >>, << 1, 2, 3 >>, << 1, 2, 3, 4 >>}

\* channel.read(length) on an open channel.  uart.py starts with an empty
\* data_read; usbdev.py keeps what an earlier read left in
\* internal_read_buffer and returns at once when that is enough.
channel_read(impl, length) ==
    /\ ch_pc = "idle"
    /\ ch_op' = [impl |-> impl, length |-> length]
    /\ data_read' = << >>
    /\ ch_nreads' = 0
    /\ IF impl = "usbdev" /\ Len(internal_read_buffer) >= length
       THEN /\ ch_pc' = "done"
            /\ ch_result' = [kind |-> "return", data |-> SubSeq(internal_read_buffer, 1, length)]
            /\ internal_read_buffer' = SubSeq(internal_read_buffer, length + 1, Len(internal_read_buffer))
       ELSE /\ ch_pc' = "reading"
            /\ ch_result' = [kind |-> "pending", data |-> << >>]
            /\ UNCHANGED internal_read_buffer
    /\ ChannelFrame

\* uart.py: data = self.port.read(length - data_length).  An empty read
\* raises base.ChannelReadTimeout, a name base.py does not define: the raise
\* statement fails with AttributeError.
uart_port_read(data) ==
    /\ ch_pc = "reading"
    /\ ch_op.impl = "uart"
    /\ Len(data) <= ch_op.length - Len(Join(data_read))
    /\ ch_nreads' = ch_nreads + 1
    /\ IF data = << >>
       THEN /\ ch_pc' = "done"
            /\ ch_result' = [kind |-> "AttributeError", data |-> << >>]
            /\ UNCHANGED data_read
       ELSE /\ data_read' = Append(data_read, data)
            /\ IF Len(Join(data_read)) + Len(data) < ch_op.length
               THEN ch_pc' = "reading" /\ UNCHANGED ch_result
               ELSE /\ ch_pc' = "done"
                    /\ ch_result' = [kind |-> "return", data |-> Join(Append(data_read, data))]
    /\ UNCHANGED << ch_op, internal_read_buffer >>
    /\ ChannelFrame

\* usbdev.py: one endpoint_in.read(64) appended to internal_read_buffer; the
\* first `length` bytes are returned once the buffer holds them.
usb_endpoint_read(data) ==
    /\ ch_pc = "reading"
    /\ ch_op.impl = "usbdev"
    /\ ch_nreads < MaxPackets
    /\ ch_nreads' = ch_nreads + 1
    /\ IF Len(internal_read_buffer) + Len(data) < ch_op.length
       THEN /\ internal_read_buffer' = internal_read_buffer \o data
            /\ ch_pc' = "reading"
            /\ UNCHANGED ch_result
       ELSE /\ ch_pc' = "done"
            /\ ch_result' = [kind |-> "return", data |-> SubSeq(internal_read_buffer \o data, 1, ch_op.length)]
            /\ internal_read_buffer' = SubSeq(internal_read_buffer \o data, ch_op.length + 1, Len(internal_read_buffer) + Len(data))
    /\ UNCHANGED << ch_op, data_read >>
    /\ ChannelFrame

\* usbdev.py: endpoint_in.read raises usb.USBError (the 1000 ms timeout
\* among others), which read turns into IOError; the buffer is kept.
usb_endpoint_error ==
    /\ ch_pc = "reading"
    /\ ch_op.impl = "usbdev"
    /\ ch_pc' = "done"
    /\ ch_result' = [kind |-> "IOError", data |-> << >>]
    /\ UNCHANGED << ch_op, data_read, internal_read_buffer, ch_nreads >>
    /\ ChannelFrame

\* channel.py: return self.port.read(length), whatever the port had within
\* its 0.5 s timeout.
legacy_port_read(data) ==
    /\ ch_pc = "reading"
    /\ ch_op.impl = "legacy"
    /\ Len(data) <= ch_op.length
    /\ ch_nreads' = ch_nreads + 1
    /\ ch_pc' = "done"
    /\ ch_result' = [kind |-> "return", data |-> data]
    /\ UNCHANGED << ch_op, data_read, internal_read_buffer >>
    /\ ChannelFrame

\* The protocol layer has the result and goes on.
channel_read_returns ==
    /\ ch_pc = "done"
    /\ ch_pc' = "idle"
    /\ UNCHANGED << ch_op, data_read, internal_read_buffer, ch_result, ch_nreads >>
    /\ ChannelFrame

ChannelImplementations == {"uart", "usbdev", "legacy"}

NextChannel ==
    \/ \E impl \in ChannelImplementations, length \in 1 .. MaxRead : channel_read(impl, length)
    \/ \E data \in Deliveries : uart_port_read(data)
    \/ \E data \in Deliveries : usb_endpoint_read(data)
    \/ usb_endpoint_error
    \/ \E data \in Deliveries : legacy_port_read(data)
    \/ channel_read_returns

SpecChannel == Init /\ [][NextChannel]_vars

\* ------------------------------------------------------------------------
\* Vocabulary of the properties
\* ------------------------------------------------------------------------
\* RAMKernelProtocol.__init__ stores the channel and nothing else: the object
\* has no kernel_init flag, and no method of the class sets one.
kernel_init == FALSE

FlashOperations == {"flash_dump", "flash_erase", "flash_program", "flash_get_capacity"}

StreamOperations == {"flash_dump", "flash_erase", "flash_program"}

LastReceived == rx_log[Len(rx_log)]

\* The (checksum, length) pairs of the responses of `log` whose ACK is `ack`.
RECURSIVE FieldsOf(_, _)
FieldsOf(log, ack) ==
    IF log = <<>> THEN <<>>
    ELSE (IF Head(log).ack = ack THEN << << Head(log).checksum, Head(log).length >> >>
          ELSE <<>>) \o FieldsOf(Tail(log), ack)

\* The payloads of the responses of `log`, concatenated in order.
RECURSIVE PayloadsOf(_)
PayloadsOf(log) == IF log = <<>> THEN <<>> ELSE Head(log).payload \o PayloadsOf(Tail(log))

\* flash_dump read the payload of response i: its ACK was let through.
DumpDataResponse(i) ==
    IF i = 1 THEN rx_log[i].ack \in {ACK_SUCCESS, ACK_FLASH_PARTLY}
    ELSE rx_log[i].ack = ACK_FLASH_PARTLY

\* ------------------------------------------------------------------------
\* Properties
\* ------------------------------------------------------------------------
\* C1: a flash operation (flash_dump, flash_erase, flash_program,
\* flash_get_capacity) called while no earlier flash_initial of the session has
\* completed on ACK SUCCESS raises StateError.
C1_FlashGate ==
    (pc = "done" /\ op.name \in FlashOperations /\ ~flash_inited)
        => outcome.kind = "StateError"

\* C2: on a session whose kernel_init flag is not set, getver,
\* flash_get_capacity and the other commands except flash_initial and reset fail
\* with KernelNotInitializedError.
C2_KernelNotInitialized ==
    (pc = "done" /\ ~kernel_init
     /\ op.name \in {"getver", "flash_get_capacity", "flash_dump", "flash_erase", "flash_program"})
        => outcome.kind = "KernelNotInitializedError"

\* C3: flash_erase with a callback calls it once per FLASH_ERASE response read,
\* in arrival order, with that response's (checksum, length); every response
\* before the last one read is a FLASH_ERASE; the call returns when the last is
\* SUCCESS and raises CommandResponseError when it is any other ACK, and the
\* callback is not called for that last response.
C3_EraseCallback ==
    (op.name = "flash_erase" /\ op.callback) =>
        /\ cb_log = FieldsOf(rx_log, ACK_FLASH_ERASE)
        /\ \A i \in 1 .. Len(rx_log) - 1 : rx_log[i].ack = ACK_FLASH_ERASE
        /\ (pc = "done" /\ outcome.kind = "return") =>
               /\ rx_log # <<>>
               /\ LastReceived.ack = ACK_SUCCESS
               /\ Len(cb_log) = Len(rx_log) - 1
        /\ (rx_log # <<>> /\ LastReceived.ack = ACK_SUCCESS) =>
               (pc = "done" /\ outcome.kind = "return")
        /\ (rx_log # <<>> /\ LastReceived.ack \notin {ACK_FLASH_ERASE, ACK_SUCCESS}) =>
               /\ pc = "done"
               /\ outcome = CommandResponseError(CMD_FLASH_ERASE, LastReceived.ack,
                                                 LastReceived.length)
               /\ Len(cb_log) = Len(rx_log) - 1

\* Two blocks with different (index, size) were reported, then SUCCESS.
C3_Witness ==
    /\ op.name = "flash_erase" /\ op.callback
    /\ pc = "done" /\ outcome.kind = "return"
    /\ Len(cb_log) = 2 /\ cb_log[1] # cb_log[2]
    /\ cb_log[1][1] # cb_log[1][2]

\* C4: flash_dump(address, size) goes on reading responses while the payload
\* bytes read so far are fewer than size, every response after the first being
\* a FLASH_PARTLY; it returns the payloads concatenated in arrival order, and
\* the last response it read was still needed (before it, fewer than size bytes
\* had been read).
C4_DumpStream ==
    (op.name = "flash_dump") =>
        /\ (pc = "flash_dump_next") =>
               /\ Len(PayloadsOf(rx_log)) < op.size
               /\ \A i \in 1 .. Len(rx_log) : DumpDataResponse(i)
        /\ (pc = "done" /\ outcome.kind = "return") =>
               /\ rx_log # <<>>
               /\ \A i \in 1 .. Len(rx_log) : DumpDataResponse(i)
               /\ outcome.value = PayloadsOf(rx_log)
               /\ Len(outcome.value) >= op.size
               /\ (Len(rx_log) > 1) =>
                      Len(outcome.value) - Len(LastReceived.payload) < op.size

\* A dump of three bytes that arrived as two different chunks.
C4_Witness ==
    /\ op.name = "flash_dump" /\ pc = "done" /\ outcome.kind = "return"
    /\ op.size = 3 /\ Len(rx_log) = 2
    /\ rx_log[1].payload # rx_log[2].payload
    /\ Len(outcome.value) = 3

\* C5: in flash_dump, a response whose payload was read (the first response or
\* a later one) and sums to something else than the checksum of its header ends
\* the call with ChecksumError(expected_checksum = the header's checksum,
\* checksum = the sum computed by the host); nothing is returned.
C5_DumpChecksum ==
    (op.name = "flash_dump") =>
        \A i \in 1 .. Len(rx_log) :
            (DumpDataResponse(i)
             /\ calculate_checksum(rx_log[i].payload) # rx_log[i].checksum) =>
                /\ i = Len(rx_log)
                /\ pc = "done"
                /\ outcome = ChecksumError(rx_log[i].checksum,
                                           calculate_checksum(rx_log[i].payload))

\* A checksum error on the second response, the first having verified, with
\* all of its payload read.
C5_Witness ==
    /\ op.name = "flash_dump" /\ pc = "done" /\ outcome.kind = "ChecksumError"
    /\ Len(rx_log) = 2
    /\ rx_log[1].payload # <<>>
    /\ Len(rx_log[2].payload) = rx_log[2].length
    /\ outcome.expected_checksum # outcome.checksum

\* C6: flash_dump accepts a stream of FLASH_PARTLY responses whose last
\* response has ACK SUCCESS instead of FLASH_PARTLY, at the first position and
\* at a later one: such a stream never ends in CommandResponseError.
C6_DumpAcceptsSuccessEnding ==
    (/\ op.name = "flash_dump"
     /\ pc = "done"
     /\ rx_log # <<>>
     /\ \A i \in 1 .. Len(rx_log) - 1 : rx_log[i].ack = ACK_FLASH_PARTLY
     /\ LastReceived.ack \in {ACK_SUCCESS, ACK_FLASH_PARTLY})
        => outcome.kind # "CommandResponseError"

\* C7: flash_program writes the data only after the command frame and an
\* initial response with ACK SUCCESS; an initial response with any other ACK
\* ends the call with CommandResponseError(CMD_FLASH_PROGRAM, that ack) and
\* only the 16-byte command frame has been written.
C7_ProgramDataAfterInitialSuccess ==
    (op.name = "flash_program") =>
        /\ Len(written) <= 2
        /\ (Len(written) = 2) =>
               /\ Len(written[1]) = 16
               /\ written[2] = op.data.bytes
               /\ rx_log # <<>>
               /\ rx_log[1].ack = ACK_SUCCESS
        /\ (rx_log # <<>> /\ rx_log[1].ack # ACK_SUCCESS) =>
               /\ pc = "done"
               /\ Len(rx_log) = 1
               /\ outcome = CommandResponseError(CMD_FLASH_PROGRAM, rx_log[1].ack,
                                                 rx_log[1].length)
               /\ Len(written) = 1
               /\ Len(written[1]) = 16

\* The initial response was a FLASH_PARTLY: the call raised, no data written.
C7_Witness ==
    /\ op.name = "flash_program" /\ pc = "done"
    /\ rx_log # <<>> /\ rx_log[1].ack = ACK_FLASH_PARTLY
    /\ outcome.kind = "CommandResponseError"
    /\ Len(written) = 1

\* C8: program_callback is called once per FLASH_PARTLY response read after
\* the data, in arrival order, with that response's (checksum, length).
C8_ProgramCallback ==
    (op.name = "flash_program" /\ op.callback /\ pc = "done") =>
        cb_log = FieldsOf(SubSeq(rx_log, 2, Len(rx_log)), ACK_FLASH_PARTLY)

\* C9: flash_program with read_back_verify = true and valid arguments, with or
\* without callbacks, is carried out: it sends its command and goes through
\* the stream of responses.
C9_ProgramVerify ==
    (op.name = "flash_program" /\ pc = "done" /\ op.read_back_verify
     /\ ProgramArgumentsValid(op.address, op.data, op.file_format))
        => /\ outcome.kind \notin {"NotImplementedError", "TypeError"}
           /\ written # <<>>

\* C10: in flash_dump, flash_erase and flash_program, a response whose ACK is
\* neither SUCCESS nor the streaming kind of the operation (FLASH_PARTLY for
\* dump and program, FLASH_ERASE for erase) is the last one read and ends the
\* call with CommandResponseError(command of the operation, that ack).
C10_UnexpectedAckFails ==
    (op.name \in StreamOperations) =>
        \A i \in 1 .. Len(rx_log) :
            (rx_log[i].ack \notin
                {ACK_SUCCESS,
                 IF op.name = "flash_erase" THEN ACK_FLASH_ERASE ELSE ACK_FLASH_PARTLY}) =>
                /\ i = Len(rx_log)
                /\ pc = "done"
                /\ outcome.kind = "CommandResponseError"
                /\ outcome.ack = rx_log[i].ack
                /\ outcome.command =
                       (CASE op.name = "flash_dump" -> CMD_FLASH_DUMP
                          [] op.name = "flash_erase" -> CMD_FLASH_ERASE
                          [] OTHER -> CMD_FLASH_PROGRAM)

\* C11: flash_program called with a negative start address, empty data, data
\* longer than FLASH_PROGRAM_MAX_WRITE_SIZE or a file_format outside {0, 1, 2}
\* raises ValueError; the call has written nothing to the channel and has read
\* nothing from it.  (Calls made with the parameters of the signature.)
C11_ProgramArguments ==
    [][(/\ pc = "idle"
        /\ op'.name = "flash_program"
        /\ ~op'.verify_callback
        /\ \/ op'.address < 0
           \/ op'.data.len = 0
           \/ op'.data.len > 2 * 1024 * 1024
           \/ op'.file_format \notin {0, 1, 2})
       => /\ pc' = "done"
          /\ outcome'.kind = "ValueError"
          /\ written' = <<>>
          /\ send_queue' = send_queue
          /\ rx_log' = <<>>]_vars

\* Data one byte over the bound was refused while a response waited unread.
C11_Witness ==
    /\ op.name = "flash_program" /\ pc = "done"
    /\ ~op.verify_callback
    /\ op.address >= 0 /\ op.file_format = FLASH_FILE_FORMAT_NORMAL
    /\ op.data.len = FLASH_PROGRAM_MAX_WRITE_SIZE + 1
    /\ outcome.kind = "ValueError"
    /\ written = <<>>
    /\ Len(send_queue) >= 8

\* C12: flash_initial reads one response, returns only when its ACK is SUCCESS
\* and otherwise (error codes and FLASH_PARTLY alike) raises
\* CommandResponseError(CMD_FLASH_INITIAL, that ack, that length).
C12_FlashInitialOnlySuccess ==
    (op.name = "flash_initial" /\ pc = "done" /\ rx_log # <<>>) =>
        /\ Len(rx_log) = 1
        /\ IF rx_log[1].ack = ACK_SUCCESS
           THEN outcome.kind = "return"
           ELSE outcome = CommandResponseError(CMD_FLASH_INITIAL, rx_log[1].ack,
                                               rx_log[1].length)

\* The number of bytes write_file streamed after its command.
RECURSIVE SumOf(_)
SumOf(lengths) == IF lengths = <<>> THEN 0 ELSE Head(lengths) + SumOf(Tail(lengths))

\* The methods of RAMKernelProtocol and of SerialBootProtocol.
RklOperations ==
    {"flash_initial", "getver", "flash_get_capacity", "reset", "flash_dump",
     "flash_erase", "flash_program"}

BootOperations ==
    {"get_status", "read_memory", "write_memory", "write_file", "reenumerate_usb",
     "complete_boot"}

\* C13: the command frame an SBP operation or an RKL operation writes is 16
\* bytes long; it is the only thing the operation writes with channel.write
\* besides the data of flash_program.
C13_FrameSize ==
    (op.name \in RklOperations \cup BootOperations /\ written # <<>>) =>
        /\ Len(written[1]) = 16
        /\ Len(written) = 1 \/ (op.name = "flash_program" /\ Len(written) = 2)

\* A write_memory command, packed to 15 bytes, went out as 16.
C13_Witness ==
    /\ op.name = "write_memory"
    /\ written # <<>>
    /\ Len(WriteMemoryCommand(op.address, op.datasize, op.data)) = 15
    /\ Len(written[1]) = 16

\* C18: after the command and its ACK, write_file writes chunks of at most
\* 1024 bytes; when the stream holds at least `length` bytes the call returns
\* having written exactly `length` bytes, and when it holds fewer the call
\* fails.
C18_WriteFileExactLength ==
    (/\ op.name = "write_file"
     /\ pc = "done"
     /\ rx_log # <<>>
     /\ rx_log[1] \in {Reverse(ACK_PRODUCTION_PART), Reverse(ACK_ENGINEERING_PART)})
        => /\ \A i \in 1 .. Len(stream_written) : stream_written[i] <= 1024
           /\ (op.stream >= op.length) =>
                  (outcome.kind = "return" /\ SumOf(stream_written) = op.length)
           /\ (op.stream < op.length) => outcome.kind # "return"

\* C19: complete_boot writes 16 bytes in all and reads one status word; it
\* returns the word when it is BOOT_PROTOCOL_COMPLETE and raises
\* CommandResponseError for any other word and for a short read.
C19_CompleteBoot ==
    (op.name = "complete_boot" /\ pc = "done") =>
        /\ Len(written) = 1
        /\ Len(written[1]) = 16
        /\ Len(rx_log) = 1
        /\ IF rx_log[1] = << 136, 136, 136, 136 >>
           THEN outcome = Returns(<< 136, 136, 136, 136 >>)
           ELSE outcome = Raises("boot.CommandResponseError")

\* complete_boot read HAB_PASSED and raised, the 16 bytes written.
C19_Witness ==
    /\ op.name = "complete_boot" /\ pc = "done"
    /\ rx_log = << << 240, 240, 240, 240 >> >>
    /\ outcome.kind = "boot.CommandResponseError"
    /\ Len(written[1]) = 16

\* The first status word write_memory read is an ACK.
C20_FirstIsAck ==
    /\ Len(rx_log[1]) = 4
    /\ rx_log[1] \in {<< 18, 52, 52, 18 >>, << 86, 120, 120, 86 >>}

\* C20: a write_memory that sent its command returns exactly when the first
\* status word read is ACK_PRODUCTION_PART or ACK_ENGINEERING_PART and the
\* second is ACK_WRITE_SUCCESS; it reads no second word when the first is
\* anything else, and raises CommandResponseError when the second is short or
\* different.
C20_WriteMemoryAcks ==
    (op.name = "write_memory" /\ pc = "done" /\ written # <<>>) =>
        /\ rx_log # <<>>
        /\ Len(rx_log) = (IF C20_FirstIsAck THEN 2 ELSE 1)
        /\ (outcome.kind = "return") <=>
               (C20_FirstIsAck /\ rx_log[2] = << 18, 138, 138, 18 >>)
        /\ (outcome.kind # "return") => outcome = Raises("boot.CommandResponseError")

\* The first word was an ACK and the second came short: the call raised.
C20_Witness ==
    /\ op.name = "write_memory" /\ pc = "done"
    /\ Len(rx_log) = 2
    /\ C20_FirstIsAck
    /\ Len(rx_log[2]) < 4
    /\ outcome.kind = "boot.CommandResponseError"

\* The names the log of a run holds for exceptions.
Exceptions == {"IOError", "boot.CommandResponseError", "ramkernel.CommandResponseError", "TypeError", "AttributeError"}

\* How often a run made a call, and where.
CountIn(log, name) == Cardinality({i \in DOMAIN log : log[i] = name})

FirstAt(name) == CHOOSE i \in DOMAIN app_log : app_log[i] = name /\ \A j \in 1 .. i - 1 : app_log[j] # name

LastAt(name) == CHOOSE i \in DOMAIN app_log : app_log[i] = name /\ \A j \in i + 1 .. Len(app_log) : app_log[j] # name

\* The call at place i of the log raised.
RaisedAt(i) == i < Len(app_log) /\ app_log[i + 1] \in Exceptions

\* The run is over and it had dispatched the flash sub-command.
Dispatched == app_pc = "exited" /\ CountIn(app_log, "subcommand") = 1

\* Where the reset is expected: right after the sub-command and, when it
\* raised, its exception.
ResetPlace == IF RaisedAt(FirstAt("subcommand")) THEN FirstAt("subcommand") + 2 ELSE FirstAt("subcommand") + 1

\* The channel_reinit entered at place c of the log re-opened the channel (a
\* serial channel is not closed and needs no re-opening).
Reopened(c) ==
    IF app_op.usb
    THEN \E j \in c + 1 .. Len(app_log) : app_log[j] = "open" /\ ~RaisedAt(j)
    ELSE ~RaisedAt(c)

\* C14 as stated: a run that dispatched the sub-command sends reset exactly
\* once, after the sub-command, and then performs channel_reinit and
\* get_status, in that order, whatever the sub-command did.
C14_CleanupAlways ==
    Dispatched =>
        /\ CountIn(app_log, "reset") = 1
        /\ \E r, c, g \in DOMAIN app_log :
              /\ FirstAt("subcommand") < r /\ r < c /\ c < g
              /\ app_log[r] = "reset"
              /\ app_log[c] = "channel_reinit"
              /\ app_log[g] = "get_status"

\* What holds of the cleanup: a run that dispatched the sub-command sends
\* reset exactly once, right after the sub-command, whether it returned or
\* raised; channel_reinit follows only a reset that did not raise, and
\* get_status only a channel_reinit that re-opened the channel.
C14_CleanupWhenReached ==
    Dispatched =>
        /\ CountIn(app_log, "reset") = 1
        /\ ResetPlace <= Len(app_log)
        /\ app_log[ResetPlace] = "reset"
        /\ LET after == SubSeq(app_log, ResetPlace + 1, Len(app_log))
           IN IF RaisedAt(ResetPlace)
              THEN CountIn(after, "channel_reinit") = 0 /\ CountIn(after, "get_status") = 0
              ELSE /\ CountIn(after, "channel_reinit") = 1
                   /\ app_log[ResetPlace + 1] = "channel_reinit"
                   /\ IF Reopened(ResetPlace + 1)
                      THEN /\ CountIn(after, "get_status") = 1
                           /\ LastAt("get_status") > ResetPlace + 1
                           /\ app_log[LastAt("get_status") - 1] \in {"open", "channel_reinit"}
                      ELSE CountIn(after, "get_status") = 0

\* mx-flashtool.py on USB: the sub-command raised, the reset was sent, the
\* second attempt of channel_reinit opened the channel and get_status ran.
C14_Witness ==
    /\ Dispatched
    /\ app_op.tool = "mx-flashtool"
    /\ RaisedAt(FirstAt("subcommand"))
    /\ ~RaisedAt(ResetPlace)
    /\ attempts = 1
    /\ Reopened(ResetPlace + 1)
    /\ LastAt("get_status") > ResetPlace
    /\ app_exit = "ramkernel.CommandResponseError"

\* The channel was opened by the open() at the start of the run.
OpenedAtStart == app_log # <<>> /\ app_log[1] = "open" /\ ~RaisedAt(1)

\* The successful open() calls of channel_reinit.
Reopenings == {j \in 2 .. Len(app_log) : app_log[j] = "open" /\ ~RaisedAt(j)}

\* C15: a run that opened the channel has closed it when it ends, on every
\* exit path; the channel is opened once at the start and re-opened at most
\* once after the hand-off to the RAM kernel.
C15_ChannelLifecycle ==
    (app_pc = "exited" /\ OpenedAtStart) =>
        /\ ~chan_open
        /\ Cardinality(Reopenings) <= 1

\* The part of C15 about the close alone.
C15_ClosedAtExit == (app_pc = "exited" /\ OpenedAtStart) => ~chan_open

\* C16: channel_reinit on a USB channel closes the channel once, makes at
\* most three open attempts, stops at the first that succeeds, and fails,
\* with an I/O error, exactly when three attempts failed.
C16_ReinitRetries ==
    (app_pc \in {"reinit_return", "reinit_raise"} /\ app_op.usb) =>
        LET tail == SubSeq(app_log, LastAt("channel_reinit") + 1, Len(app_log))
        IN /\ CountIn(tail, "close") = 1
           /\ tail[1] = "close"
           /\ CountIn(tail, "open") <= 3
           /\ (app_pc = "reinit_return") =>
                  (tail[Len(tail)] = "open" /\ CountIn(tail, "IOError") = CountIn(tail, "open") - 1)
           /\ (app_pc = "reinit_raise") <=> (CountIn(tail, "IOError") = 3)
           /\ (app_pc = "reinit_raise") => app_exc = "IOError"

\* The parts of C16 that do not depend on the number of attempts or on the
\* exception: one close first, at most three attempts, none after a success.
C16_ReinitShape ==
    (app_pc \in {"reinit_return", "reinit_raise"} /\ app_op.usb) =>
        LET tail == SubSeq(app_log, LastAt("channel_reinit") + 1, Len(app_log))
        IN /\ CountIn(tail, "close") = 1
           /\ tail[1] = "close"
           /\ CountIn(tail, "open") <= 3
           /\ (app_pc = "reinit_return") =>
                  (tail[Len(tail)] = "open" /\ CountIn(tail, "IOError") = CountIn(tail, "open") - 1)
           /\ (app_pc = "reinit_raise") => CountIn(tail, "IOError") = CountIn(tail, "open")

\* C17: a read(n) of any of the channels that has ended either returned
\* exactly n bytes or failed with a timeout or I/O error; it never returned
\* fewer than n bytes.
C17_ReadExact ==
    (ch_pc = "done") =>
        \/ ch_result.kind = "return" /\ Len(ch_result.data) = ch_op.length
        \/ ch_result.kind \in {"IOError", "ChannelReadTimeout"}

\* The part of C17 that holds of the channel package: neither uart.py nor
\* usbdev.py returns fewer bytes than asked.
C17_PackageNeverShort ==
    (ch_pc = "done" /\ ch_op.impl # "legacy" /\ ch_result.kind = "return") =>
        Len(ch_result.data) = ch_op.length

\* The bytes a call of SerialBootProtocol has read for its i-th read are fewer
\* than it asked for: 4 for a status word, the access width for an element of
\* read_memory.
ShortRead(i) ==
    Len(rx_log[i]) < (IF op.name = "read_memory" /\ i > 1 THEN op.datasize \div 8 ELSE 4)

\* The first status word is not one of the two ACKs.
UnexpectedAck ==
    /\ op.name \in {"read_memory", "write_memory", "write_file"}
    /\ rx_log[1] \notin {<< 18, 52, 52, 18 >>, << 86, 120, 120, 86 >>}

\* The status the call waits for is another one.
StatusMismatch ==
    \/ op.name = "write_memory" /\ Len(rx_log) = 2 /\ rx_log[2] # << 18, 138, 138, 18 >>
    \/ op.name = "complete_boot" /\ rx_log[1] # << 136, 136, 136, 136 >>
    \/ op.name = "reenumerate_usb" /\ rx_log[1] # << 137, 35, 35, 137 >>

\* C21: an SBP operation that read a short response, an initial ACK other
\* than PRODUCTION or ENGINEERING, or a status other than the one it waits
\* for ends with boot.CommandResponseError: it returns no value and raises
\* nothing else.
C21_BadResponseRaises ==
    (op.name \in BootOperations /\ pc = "done" /\ rx_log # <<>>) =>
        (((\E i \in DOMAIN rx_log : ShortRead(i)) \/ UnexpectedAck \/ StatusMismatch)
            => outcome = Raises("boot.CommandResponseError"))

\* read_memory got its ACK and then fewer data bytes than the width: it raised.
C21_Witness ==
    /\ op.name = "read_memory" /\ pc = "done"
    /\ Len(rx_log) >= 2
    /\ rx_log[1] = << 86, 120, 120, 86 >>
    /\ ShortRead(Len(rx_log))
    /\ outcome.kind = "boot.CommandResponseError"

\* The four bytes of a 32-bit argument, most significant first.
BytesOf(w) == << w.hi \div 256, w.hi % 256, w.lo \div 256, w.lo % 256 >>

\* A write_memory call wrote its frame.
WroteMemoryFrame == op.name = "write_memory" /\ written # <<>> /\ Len(written[1]) = 16

\* C23 as stated: the value is in the trailing bytes of the frame, a byte at
\* offset 15, a half-word at offsets 14-15, a word at offsets 11-14,
\* big-endian, every other byte from offset 7 on being zero.
C23_ValueTrailing ==
    WroteMemoryFrame =>
        LET f == written[1]
        IN /\ op.datasize = DATA_SIZE_BYTE =>
                  (f[16] = op.data.lo /\ \A k \in 8 .. 15 : f[k] = 0)
           /\ op.datasize = DATA_SIZE_HALFWORD =>
                  (f[15] = op.data.lo \div 256 /\ f[16] = op.data.lo % 256
                   /\ \A k \in 8 .. 14 : f[k] = 0)
           /\ op.datasize = DATA_SIZE_WORD =>
                  (<< f[12], f[13], f[14], f[15] >> = BytesOf(op.data)
                   /\ \A k \in {8, 9, 10, 11, 16} : f[k] = 0)

\* C23, amended: the value is right-aligned in the four bytes at offsets
\* 11-14, a byte at offset 14, a half-word at offsets 13-14, a word at offsets
\* 11-14, big-endian, every other byte from offset 7 on, offset 15 included,
\* being zero.
C23_ValueRightAligned ==
    WroteMemoryFrame =>
        LET f == written[1]
        IN /\ op.datasize = DATA_SIZE_BYTE =>
                  (f[15] = op.data.lo /\ \A k \in (8 .. 14) \cup {16} : f[k] = 0)
           /\ op.datasize = DATA_SIZE_HALFWORD =>
                  (f[14] = op.data.lo \div 256 /\ f[15] = op.data.lo % 256
                   /\ \A k \in (8 .. 13) \cup {16} : f[k] = 0)
           /\ op.datasize = DATA_SIZE_WORD =>
                  (<< f[12], f[13], f[14], f[15] >> = BytesOf(op.data)
                   /\ \A k \in {8, 9, 10, 11, 16} : f[k] = 0)

\* write_memory wrote the byte 0xFE and the half-word 0xFEED is next door in
\* the inputs: here the byte, at offset 14.
C23_Witness ==
    /\ WroteMemoryFrame
    /\ op.datasize = DATA_SIZE_BYTE
    /\ op.data = Word(0, 254)
    /\ written[1][15] = 254

\* C24: the write_memory frame is 02 02, the address big-endian at offsets
\* 2-5, the width code at offset 6, zeros at offsets 7-10, the value
\* right-aligned big-endian at offsets 11-14 and a zero at offset 15.
C24_WriteMemoryFrame ==
    (op.name = "write_memory" /\ written # <<>>) =>
        written[1] = << 2, 2 >> \o BytesOf(op.address) \o << op.datasize >>
                        \o << 0, 0, 0, 0 >> \o BytesOf(op.data) \o << 0 >>

\* write_memory(0xBEEFCAFE, WORD, 0xCAFEFEED) wrote 02 02 BE EF CA FE 20 00 00
\* 00 00 CA FE FE ED 00, read the two ACKs and returned.
C24_Witness ==
    /\ op.name = "write_memory" /\ pc = "done"
    /\ op.address = Word(48879, 51966) /\ op.datasize = DATA_SIZE_WORD
    /\ op.data = Word(51966, 65261)
    /\ written = << << 2, 2, 190, 239, 202, 254, 32, 0, 0, 0, 0, 202, 254, 254, 237, 0 >> >>
    /\ rx_log = << << 86, 120, 120, 86 >>, << 18, 138, 138, 18 >> >>
    /\ outcome.kind = "return"

\* The value of an element of read_memory, most significant byte first, from
\* the bytes read for it, which come least significant first.
ElementRead(bytes) == [k \in 1 .. Len(bytes) |-> bytes[Len(bytes) + 1 - k]]

\* read_memory returned.
ReadMemoryReturned == op.name = "read_memory" /\ pc = "done" /\ outcome.kind = "return"

\* C25: read_memory called with length 1 returns the element as a scalar, not
\* as a sequence of one element.
C25_SingleIsScalar ==
    (ReadMemoryReturned /\ op.length = 1) =>
        /\ outcome.value.shape = "scalar"
        /\ outcome.value.elements = << ElementRead(rx_log[2]) >>

\* read_memory(0x25, HALFWORD, 1) read AA BB and returned the scalar 0xBBAA.
C25_Witness ==
    /\ ReadMemoryReturned /\ op.length = 1
    /\ op.address = Word(0, 37) /\ op.datasize = DATA_SIZE_HALFWORD
    /\ rx_log[2] = << 170, 187 >>
    /\ outcome.value = [shape |-> "scalar", elements |-> << << 187, 170 >> >>]

\* C26: read_memory writes 01 01, the address big-endian, the width code, the
\* length big-endian and zeros up to 16 bytes, and returns an array of the
\* elements read, in order, also when length is 1.
C26_ReadMemoryArray ==
    ReadMemoryReturned =>
        /\ written = << << 1, 1 >> \o BytesOf(op.address) \o << op.datasize >>
                         \o BytesOf(Word(0, op.length)) \o << 0, 0, 0, 0, 0 >> >>
        /\ outcome.value.shape = "array"
        /\ outcome.value.elements = [i \in 1 .. op.length |-> ElementRead(rx_log[i + 1])]

\* The part of C26 that leaves the shape of the result aside.
C26_FrameAndElements ==
    ReadMemoryReturned =>
        /\ written = << << 1, 1 >> \o BytesOf(op.address) \o << op.datasize >>
                         \o BytesOf(Word(0, op.length)) \o << 0, 0, 0, 0, 0 >> >>
        /\ outcome.value.elements = [i \in 1 .. op.length |-> ElementRead(rx_log[i + 1])]

\* C27: read_memory and write_memory called with an address outside
\* [0, 2^32) or with a width other than 8, 16 or 32 raise ValueError, having
\* written nothing and read nothing.
C27_ArgumentsRejected ==
    (/\ op.name \in {"read_memory", "write_memory"}
     /\ pc = "done"
     /\ \/ op.address.hi < 0
        \/ op.address.hi >= 65536
        \/ op.datasize \notin {8, 16, 32})
        => /\ outcome = Raises("ValueError")
           /\ written = <<>>
           /\ rx_log = <<>>

\* read_memory(2^32, WORD, n) raised ValueError with the device's bytes left
\* in the channel.
C27_Witness ==
    /\ op.name = "read_memory" /\ pc = "done"
    /\ op.address = Word(65536, 0) /\ op.datasize = DATA_SIZE_WORD
    /\ outcome.kind = "ValueError"
    /\ written = <<>> /\ rx_log = <<>>
    /\ send_queue # <<>>

\* flash_get_capacity ends, having read a whole response header.
CapacityAnswered ==
    /\ pc = "flash_get_capacity" /\ pc' = "done"
    /\ Len(send_queue) >= 8

\* C28: flash_get_capacity has written the one frame of command 0x0006, reads
\* 8 bytes and no more, and returns the length field of the header when its
\* ACK is SUCCESS, whatever the checksum; with any other ACK it raises
\* CommandResponseError.
C28_GetCapacity ==
    [][CapacityAnswered =>
          LET header == UnpackResponse(SubSeq(send_queue, 1, 8))
          IN /\ written' = << << 6, 6, 0, 6, 0, 0, 0, 0, 0, 0, 0, 0, 0, 0, 0, 0 >> >>
             /\ send_queue' = SubSeq(send_queue, 9, Len(send_queue))
             /\ Len(rx_log') = 1
             /\ rx_log'[1].payload = <<>>
             /\ header.ack = ACK_SUCCESS => outcome' = Returns(<< header.length >>)
             /\ header.ack # ACK_SUCCESS => outcome'.kind = "CommandResponseError"]_vars

\* flash_get_capacity returned the length field 2 of a SUCCESS response whose
\* checksum field was 3, and left the two bytes that followed the header.
C28_Witness ==
    /\ op.name = "flash_get_capacity" /\ pc = "done"
    /\ rx_log = << [ack |-> ACK_SUCCESS, checksum |-> 3, length |-> 2, payload |-> <<>>] >>
    /\ outcome = Returns(<< 2 >>)
    /\ send_queue = << 1, 2 >>

\* ------------------------------------------------------------------------
\* calculate_checksum, statement by statement
\* ------------------------------------------------------------------------
\* The length from which a buffer of 0xFF bytes sums to more than 0xFFFF.
OverflowLen == 258

\* Buffers: empty, one byte, a few bytes, and runs of one byte value around
\* the length at which the plain sum passes 0xFFFF.
Run(length, byte) == [k \in 1 .. length |-> byte]

Buffers ==
    { <<>>, << 0 >>, << 255 >>, << 1, 2, 3 >>, << 97, 98 >> }
        \cup { Run(length, 255) : length \in OverflowLen - 2 .. OverflowLen }
        \cup { Run(OverflowLen, 254), Run(OverflowLen, 128) }

SumFrame == UNCHANGED << rkl_vars, sbp_vars, app_vars, chan_vars, dev_vars, tool_vars >>

\* calculate_checksum(buf): checksum = 0, and the loop starts.
checksum_call(buf) ==
    /\ sum_pc = "idle"
    /\ sum_buf' = buf
    /\ sum_checksum' = 0
    /\ sum_i' = 1
    /\ sum_pc' = "loop"
    /\ SumFrame

\* One pass of `for byte in buf`.
checksum_step ==
    /\ sum_pc = "loop"
    /\ sum_i <= Len(sum_buf)
    /\ sum_checksum' = ChecksumStep(sum_checksum, sum_buf[sum_i])
    /\ sum_i' = sum_i + 1
    /\ UNCHANGED << sum_pc, sum_buf >>
    /\ SumFrame

\* return checksum
checksum_return ==
    /\ sum_pc = "loop"
    /\ sum_i > Len(sum_buf)
    /\ sum_pc' = "done"
    /\ UNCHANGED << sum_buf, sum_i, sum_checksum >>
    /\ SumFrame

\* The caller has the checksum and may ask for another.
checksum_caller_continues ==
    /\ sum_pc = "done"
    /\ sum_pc' = "idle"
    /\ sum_buf' = <<>>
    /\ sum_i' = 1
    /\ sum_checksum' = 0
    /\ SumFrame

CallChecksum == \E buf \in Buffers : checksum_call(buf)

NextChecksum ==
    \/ CallChecksum
    \/ checksum_step
    \/ checksum_return
    \/ checksum_caller_continues

SpecChecksum == Init /\ [][NextChecksum]_vars

\* The sum of the bytes lo .. hi of a buffer, unbounded, by halves.
RECURSIVE SumBetween(_, _, _)
SumBetween(buf, lo, hi) ==
    IF lo > hi THEN 0
    ELSE IF lo = hi THEN buf[lo]
    ELSE SumBetween(buf, lo, (lo + hi) \div 2) + SumBetween(buf, (lo + hi) \div 2 + 1, hi)

\* The sum of the first n bytes of a buffer, unbounded.
PlainSum(buf, n) == SumBetween(buf, 1, n)

\* C29: calculate_checksum(b) is the sum of the bytes of b modulo 2^16: it is
\* in 0 .. 65535, it is 0 for the empty sequence, and it is what the one-line
\* definition used for the payloads of flash_dump computes.
C29_ChecksumLaw ==
    /\ sum_pc = "loop" => sum_checksum = PlainSum(sum_buf, sum_i - 1) % 65536
    /\ sum_pc = "done" =>
           /\ sum_checksum = PlainSum(sum_buf, Len(sum_buf)) % 65536
           /\ sum_checksum \in 0 .. 65535
           /\ sum_buf = <<>> => sum_checksum = 0
           /\ sum_checksum = calculate_checksum(sum_buf)

\* calculate_checksum returned for a buffer whose bytes sum to more than
\* 0xFFFF: the sum less 2^16.
C29_Witness ==
    /\ sum_pc = "done"
    /\ PlainSum(sum_buf, Len(sum_buf)) > 65535
    /\ sum_checksum = PlainSum(sum_buf, Len(sum_buf)) - 65536

\* ------------------------------------------------------------------------
\* A device that stores what write_memory sends and echoes it to read_memory
\* ------------------------------------------------------------------------
DeviceFrame ==
    /\ UNCHANGED << written, pc, op, rx_log, cb_log, payload_list, total_bytes,
                    total_length, outcome, flash_inited, ncalls >>
    /\ UNCHANGED << sbp_vars, app_vars, chan_vars, sum_vars, tool_vars >>

\* The bytes of a value of `datasize` bits held in a 4-byte data field, in
\* processor order: the least significant byte first.
ProcessorOrder(field, datasize) == [k \in 1 .. datasize \div 8 |-> field[5 - k]]

\* The device has the write_memory frame: it keeps the address (offsets 2-5),
\* the width (offset 6) and the data field (offsets 11-14), and acknowledges.
device_store ==
    /\ pc = "write_memory_ack"
    /\ nsent = 0
    /\ send_queue = <<>>
    /\ memory' = [address |-> SubSeq(written[1], 3, 6),
                  datasize |-> written[1][7],
                  stored |-> SubSeq(written[1], 12, 15),
                  data |-> op.data]
    /\ send_queue' = ACK_ENGINEERING_PART \o ACK_WRITE_SUCCESS
    /\ nsent' = 1
    /\ DeviceFrame

\* The device has a read_memory frame for the address and the width it
\* stored: it acknowledges and sends the value in processor order.
device_echo ==
    /\ pc = "read_memory_ack"
    /\ nsent = 0
    /\ send_queue = <<>>
    /\ memory.datasize # 0
    /\ SubSeq(written[1], 3, 6) = memory.address
    /\ written[1][7] = memory.datasize
    /\ send_queue' = ACK_ENGINEERING_PART \o ProcessorOrder(memory.stored, memory.datasize)
    /\ nsent' = 1
    /\ UNCHANGED memory
    /\ DeviceFrame

NextEcho ==
    \/ CallWriteMemory
    \/ device_store
    \/ write_memory_ack
    \/ write_memory_status
    \/ CallReadMemory
    \/ device_echo
    \/ read_memory_ack
    \/ read_memory_data
    \/ boot_caller_continues

SpecEcho == Init /\ [][NextEcho]_vars

\* The bytes of a value of `datasize` bits, most significant first.
ValueBytes(w, datasize) == SubSeq(BytesOf(w), 5 - datasize \div 8, 4)

\* C22: after write_memory(address, width, value) with a value the width
\* can hold, read_memory(address, width, 1) returns value, when the device
\* stored the value of the write frame and echoes it at that address.
C22_RoundTrip ==
    (/\ ReadMemoryReturned
     /\ op.length = 1
     /\ memory.datasize = op.datasize
     /\ memory.address = BytesOf(op.address)) =>
        /\ outcome.value.shape = "scalar"
        /\ outcome.value.elements = << ValueBytes(memory.data, op.datasize) >>

\* write_memory(0xBEEFCAFE, HALFWORD, 0xFEED) was stored and
\* read_memory(0xBEEFCAFE, HALFWORD, 1) returned 0xFEED.
C22_Witness ==
    /\ ReadMemoryReturned /\ op.length = 1
    /\ op.address = Word(48879, 51966) /\ op.datasize = DATA_SIZE_HALFWORD
    /\ memory.address = << 190, 239, 202, 254 >>
    /\ memory.datasize = DATA_SIZE_HALFWORD
    /\ memory.data = Word(0, 65261)
    /\ outcome.value.elements = << << 254, 237 >> >>

\* ------------------------------------------------------------------------
\* A RAM kernel that answers each command with its whole response stream
\* ------------------------------------------------------------------------
\* Blocks or pages a stream reports at most.
MaxBlocks == 2

\* The capacity the device reports.
DeviceCapacity == 4

\* A response of a stream and what it looks like on the wire.
Response(ackcode, checksum, length, payload) ==
    [ack |-> ackcode, checksum |-> checksum, length |-> length, payload |-> payload]

RECURSIVE StreamBytes(_)
StreamBytes(stream) ==
    IF stream = <<>> THEN <<>>
    ELSE PackResponse(Head(stream).ack, Head(stream).checksum, Head(stream).length)
             \o Head(stream).payload \o StreamBytes(Tail(stream))

\* The response that ends a stream.
Terminal == << Response(ACK_SUCCESS, 0, 0, <<>>) >>

\* The flash holds the bytes 1, 2, 3, ...; a dump of `size` bytes sent in
\* chunks of `chunk` bytes, each a FLASH_PARTLY response with its checksum.
DumpChunk(size, chunk, j) == [k \in 1 .. Min(chunk, size - (j - 1) * chunk) |-> (j - 1) * chunk + k]

DumpChunks(size, chunk) ==
    [j \in 1 .. (size + chunk - 1) \div chunk |->
        Response(ACK_FLASH_PARTLY, calculate_checksum(DumpChunk(size, chunk, j)),
                 Len(DumpChunk(size, chunk, j)), DumpChunk(size, chunk, j))]

\* The streams of a dump: the chunks, with or without a SUCCESS response behind
\* them; a dump of no bytes is answered by SUCCESS alone.
DumpStreams(size) ==
    IF size = 0 THEN {Terminal}
    ELSE { DumpChunks(size, chunk) \o final : chunk \in 1 .. size, final \in {<<>>, Terminal} }

\* The stream of an erase: a FLASH_ERASE response for each block, then SUCCESS.
EraseStreams ==
    { [j \in 1 .. blocks |-> Response(ACK_FLASH_ERASE, j - 1, 1, <<>>)] \o Terminal :
          blocks \in 0 .. MaxBlocks }

\* The stream of a program: a FLASH_PARTLY response for each page written, a
\* FLASH_VERIFY response for each page verified, then SUCCESS.
ProgramStreams ==
    { [j \in 1 .. pages |-> Response(ACK_FLASH_PARTLY, j - 1, 1, <<>>)]
          \o [j \in 1 .. verified |-> Response(ACK_FLASH_VERIFY, j - 1, 1, <<>>)]
          \o Terminal :
          pages \in 0 .. MaxBlocks, verified \in 0 .. MaxBlocks }

\* The device sends `stream` in answer to the command the host has written.
device_sends(stream) ==
    /\ send_queue' = send_queue \o StreamBytes(stream)
    /\ nsent' = nsent + 1
    /\ UNCHANGED memory
    /\ DeviceFrame

device_dumps ==
    /\ pc = "flash_dump_first" /\ nsent = 0
    /\ \E stream \in DumpStreams(op.size) : device_sends(stream)

device_erases ==
    /\ pc = "flash_erase" /\ nsent = 0
    /\ \E stream \in EraseStreams : device_sends(stream)

\* The initial response of a program: the device is ready for the data.
device_accepts ==
    /\ pc = "flash_program_initial" /\ nsent = 0
    /\ device_sends(Terminal)

\* The data has arrived: the stream of the program.
device_programs ==
    /\ pc = "flash_program_first" /\ nsent = 1
    /\ \E stream \in ProgramStreams : device_sends(stream)

device_capacity ==
    /\ pc = "flash_get_capacity" /\ nsent = 0
    /\ device_sends(<< Response(ACK_SUCCESS, 0, DeviceCapacity, <<>>) >>)

NextStream ==
    \/ CallFlashDump
    \/ device_dumps
    \/ flash_dump_first
    \/ flash_dump_next
    \/ CallFlashErase
    \/ device_erases
    \/ flash_erase_response
    \/ CallFlashProgram
    \/ device_accepts
    \/ flash_program_initial
    \/ device_programs
    \/ flash_program_first
    \/ flash_program_next
    \/ flash_get_capacity
    \/ device_capacity
    \/ flash_get_capacity_response
    \/ caller_continues

SpecStream == Init /\ [][NextStream]_vars

\* A call of one of the three streaming commands returned.
StreamReturned(name) == op.name = name /\ pc = "done" /\ outcome.kind = "return"

\* C30: when flash_dump, flash_erase or flash_program returns, nothing of the
\* stream the device sent for it is left in the channel, also when a dump ends
\* with SUCCESS and when a program has FLASH_VERIFY responses; the command
\* that follows then reads its own response: flash_get_capacity returns the
\* capacity the device reported.
C30_StreamDrained ==
    /\ \A name \in {"flash_dump", "flash_erase", "flash_program"} :
           StreamReturned(name) => send_queue = <<>>
    /\ (op.name = "flash_get_capacity" /\ pc = "done" /\ nsent = 1) =>
           outcome = Returns(<< DeviceCapacity >>)

\* The part of C30 that holds, of a command issued on an empty channel:
\* flash_erase reads up to the SUCCESS response that ends its stream, a
\* program stream without FLASH_VERIFY responses is read whole, and a dump
\* leaves at most the SUCCESS response that ends its stream.
C30_ErasesDrained ==
    ncalls = 1 =>
        /\ StreamReturned("flash_erase") => send_queue = <<>>
        /\ StreamReturned("flash_dump") => send_queue \in {<<>>, StreamBytes(Terminal)}
        /\ (StreamReturned("flash_program") /\ rx_log[Len(rx_log)].ack = ACK_SUCCESS) =>
               send_queue = <<>>

\* A call of flash_program returned.
ProgramReturned == op.name = "flash_program" /\ pc = "done" /\ outcome.kind = "return"

\* C31: flash_program returns only after it has read, after the payload, a
\* response whose ACK is SUCCESS: the last response it read is never a
\* FLASH_PARTLY or a FLASH_VERIFY one.
C31_ProgramEndsOnSuccess ==
    ProgramReturned => (Len(rx_log) >= 2 /\ LastReceived.ack = ACK_SUCCESS)

\* The part of C31 that holds: flash_program never returns on a FLASH_PARTLY
\* response, nor before it has read a response after the payload.
C31_NeverEndsOnPartly ==
    ProgramReturned => (Len(rx_log) >= 2 /\ LastReceived.ack \in {ACK_SUCCESS, ACK_FLASH_VERIFY})

\* The ACKs of `log` are FLASH_PARTLY*, FLASH_VERIFY*, SUCCESS.
PartlyVerifySuccess(log) ==
    /\ log # <<>>
    /\ log[Len(log)].ack = ACK_SUCCESS
    /\ \E pages \in 0 .. Len(log) - 1 :
           \A i \in 1 .. Len(log) - 1 :
               log[i].ack = (IF i <= pages THEN ACK_FLASH_PARTLY ELSE ACK_FLASH_VERIFY)

\* C32: a flash_program with read_back_verify sends its command and accepts
\* after the payload exactly the streams FLASH_PARTLY* FLASH_VERIFY* SUCCESS: it
\* returns only on such a stream, and a FLASH_PARTLY response read after a
\* FLASH_VERIFY one makes it fail.
C32_VerifyStreams ==
    (/\ op.name = "flash_program" /\ pc = "done"
     /\ op.read_back_verify /\ ~op.verify_callback
     /\ ProgramArgumentsValid(op.address, op.data, op.file_format)) =>
        /\ written # <<>>
        /\ outcome.kind = "return" => PartlyVerifySuccess(SubSeq(rx_log, 2, Len(rx_log)))
        /\ (\E i, j \in 2 .. Len(rx_log) :
               i < j /\ rx_log[i].ack = ACK_FLASH_VERIFY /\ rx_log[j].ack = ACK_FLASH_PARTLY)
               => outcome.kind = "CommandResponseError"

\* What holds of the order of the responses in every flash_program: nothing is
\* read after a FLASH_VERIFY response, so no FLASH_PARTLY response that
\* follows one is ever taken for a program partial.
C32_NothingAfterVerify ==
    op.name = "flash_program" =>
        \A i \in 2 .. Len(rx_log) : rx_log[i].ack = ACK_FLASH_VERIFY => i = Len(rx_log)

\* A call of flash_dump returned.
DumpReturned == op.name = "flash_dump" /\ pc = "done" /\ outcome.kind = "return"

\* C38: flash_dump(address, size) returns at most `size` bytes, also when the
\* payload of the last response carries the total past `size`.
C38_DumpAtMostSize == DumpReturned => Len(outcome.value) <= op.size

\* What holds instead: flash_dump returns every payload byte it read, and it
\* reads no response once `size` bytes are there, so it returns fewer than
\* `size` bytes plus the payload of the last response.
C38_DumpOverrun ==
    DumpReturned =>
        /\ outcome.value = PayloadsOf(rx_log)
        /\ Len(rx_log) > 1 => Len(outcome.value) - Len(LastReceived.payload) < op.size

\* A step of read_memory that reads from the channel.
ReadMemoryReads == op.name = "read_memory" /\ Len(rx_log') = Len(rx_log) + 1

\* C39: a read_memory(addr, width, n) that succeeds with n >= 1 takes from
\* the channel 4 bytes of ACK and then n times width/8 bytes, each read taking
\* exactly the bytes it returns from the front of the channel.
C39_ReadStride ==
    [][/\ ReadMemoryReads =>
             /\ rx_log' = Append(rx_log, rx_log'[Len(rx_log')])
             /\ send_queue = rx_log'[Len(rx_log')] \o send_queue'
       /\ (ReadMemoryReads /\ pc' = "done" /\ outcome'.kind = "return" /\ op.length >= 1) =>
             /\ Len(rx_log') = 1 + op.length
             /\ Len(rx_log'[1]) = 4
             /\ \A i \in 2 .. Len(rx_log') : Len(rx_log'[i]) = op.datasize \div 8]_vars

\* read_memory(address, BYTE, 2) returned: it read the ACK and two bytes one
\* by one and left the bytes that followed them in the channel.
C39_Witness ==
    /\ ReadMemoryReturned
    /\ op.datasize = DATA_SIZE_BYTE /\ op.length = 2
    /\ Len(rx_log) = 3 /\ Len(rx_log[2]) = 1 /\ Len(rx_log[3]) = 1
    /\ send_queue # <<>>

\* The RAM kernel commands that need an initialised flash.
AfterInitial == {"getver", "flash_set_bbt", "flash_get_capacity", "subcommand"}

\* A flash_initial that returned is in the log before place j.
InitialisedBefore(j) == \E i \in 1 .. j - 1 : app_log[i] = "flash_initial" /\ ~RaisedAt(i)

\* C33: after the launch of the RAM kernel, getver, flash_set_bbt,
\* flash_get_capacity and the sub-command are sent only after flash_initial has
\* returned: flash_initial is the first RAM kernel command of the run.
C33_FlashInitialFirst ==
    \A j \in DOMAIN app_log : app_log[j] \in AfterInitial => InitialisedBefore(j)

\* The part of C33 that holds: getver, flash_get_capacity and the sub-command
\* come after a flash_initial that returned, in the three tools.
C33_QueriesAfterInitial ==
    \A j \in DOMAIN app_log :
        app_log[j] \in AfterInitial \ {"flash_set_bbt"} => InitialisedBefore(j)

\* C35: on a serial channel channel_reinit closes nothing, opens nothing and
\* returns, and the run goes on: to flash_initial after the launch, to
\* get_status in the cleanup.
C35_SerialReinitReturns ==
    ~app_op.usb =>
        \A c \in DOMAIN app_log :
            app_log[c] = "channel_reinit" =>
                /\ ~RaisedAt(c)
                /\ c < Len(app_log) =>
                       app_log[c + 1] \in {"flash_initial", "get_status"}

\* What holds: atk.py, which sets self._usb for either kind of channel, goes
\* on after channel_reinit on a serial channel without a close or an open.
C35_SerialReinitAtk ==
    (~app_op.usb /\ app_op.tool = "atk") =>
        \A c \in DOMAIN app_log :
            app_log[c] = "channel_reinit" =>
                /\ ~RaisedAt(c)
                /\ c < Len(app_log) =>
                       app_log[c + 1] \in {"flash_initial", "get_status"}


\* The SBP traffic of a tool before the download
\* ----------------------------------------------
\* channel_init of mx-toolkit.py and the first statements of run() of
\* mx-flashtool.py and atk.py, one action for each SBP call they make.
InitFrame == UNCHANGED << rkl_vars, sbp_vars, app_vars, chan_vars, dev_vars, sum_vars, file_vars, usb_vars >>

\* 0x78001000, the address memtest of atk.py and mx-flashtool.py is written with.
MEMTEST_ADDRESS == 2013270016

\* 0x1000, what mem_test of mx-toolkit.py adds for its second round.
MEMTEST_STRIDE == 4096

\* 0xBEEFDEAD and 0xBEEFCAFE.
BEEFDEAD == Word(48879, 57005)

BEEFCAFE == Word(48879, 51966)

\* base_memory_address of the BSP: 0x78000000 and 0x10000000.
BaseAddresses == {2013265920, 268435456}

\* The lines of an init file: address, value, width.
InitEntries ==
    { [address |-> 2013274112, value |-> Word(0, 1), width |-> DATA_SIZE_WORD],
      [address |-> 2013274116, value |-> Word(0, 2), width |-> DATA_SIZE_HALFWORD] }

MaxScript == 2

InitScripts == UNION { [1 .. n -> InitEntries] : n \in 0 .. MaxScript }

\* One SBP call as the device sees it, and the function of the tool that made it.
Sent(by, call, address, datasize, value) ==
    [by |-> by, call |-> call, address |-> address, datasize |-> datasize, value |-> value]

\* memory_test_addr of mem_test in mx-toolkit.py (the BSP's base, then
\* += 0x1000); the literal 0x78001000 of memtest in the two other tools.
MemoryTestAddr(tool, base, round) ==
    IF tool = "mx-toolkit" THEN base + (round - 1) * MEMTEST_STRIDE ELSE MEMTEST_ADDRESS

MemtestRound(at) == IF at \in {"memtest_write_1", "memtest_read_1"} THEN 1 ELSE 2

MemtestValue(round) == IF round = 1 THEN BEEFDEAD ELSE BEEFCAFE

\* The statement after an SBP call: an exception leaves the sequence.
StatementAfter(result, next) == IF result = "ok" THEN next ELSE "failed"

\* The command line: the tool, the BSP, the mode and the init file.
\* load_mem_initializer of atk.py and mx-flashtool.py raises ToolkitError for
\* a RAM kernel without an init file and leaves mem_init_data as __init__ set
\* it, [], for an application without one; mx-toolkit.py reads the file in
\* mem_initialize.
tool_starts(tool, base, mode, init_file, script) ==
    /\ st_pc = "start"
    /\ init_file \/ script = <<>>
    /\ st_op' = [tool |-> tool, base |-> base, mode |-> mode, init_file |-> init_file, script |-> script]
    /\ st_pc' = IF tool # "mx-toolkit" /\ ~init_file /\ mode = "ram_kernel" THEN "failed" ELSE "get_status"
    /\ UNCHANGED << st_i, traffic >>
    /\ InitFrame

\* status = self.sbp.get_status(); mx-toolkit.py goes on with mem_initialize,
\* the two others with memtest.
tool_get_status(result) ==
    /\ st_pc = "get_status"
    /\ traffic' = Append(traffic, Sent("run", "get_status", 0, 0, Word(0, 0)))
    /\ st_pc' = StatementAfter(result, IF st_op.tool = "mx-toolkit" THEN "mem_initialize" ELSE "memtest_write_1")
    /\ UNCHANGED << st_op, st_i >>
    /\ InitFrame

\* self.sbp.write_memory(memory_test_addr, DATA_SIZE_WORD, 0xBEEFDEAD), and the
\* same with 0xBEEFCAFE in the second round.
tool_memtest_write(result) ==
    /\ st_pc \in {"memtest_write_1", "memtest_write_2"}
    /\ LET round == MemtestRound(st_pc)
       IN  /\ traffic' = Append(traffic, Sent("memtest", "write_memory", MemoryTestAddr(st_op.tool, st_op.base, round), DATA_SIZE_WORD, MemtestValue(round)))
           /\ st_pc' = StatementAfter(result, IF round = 1 THEN "memtest_read_1" ELSE "memtest_read_2")
    /\ UNCHANGED << st_op, st_i >>
    /\ InitFrame

\* check = self.sbp.read_memory_single(memory_test_addr, DATA_SIZE_WORD): a
\* read of one element; a value that differs is reported and nothing else.
\* After the second round mx-toolkit.py has finished channel_init and the two
\* others call mem_initialize.
tool_memtest_read(result) ==
    /\ st_pc \in {"memtest_read_1", "memtest_read_2"}
    /\ LET round == MemtestRound(st_pc)
       IN  /\ traffic' = Append(traffic, Sent("memtest", "read_memory_single", MemoryTestAddr(st_op.tool, st_op.base, round), DATA_SIZE_WORD, Word(0, 0)))
           /\ st_pc' = StatementAfter(result,
                          IF round = 1 THEN "memtest_write_2"
                          ELSE IF st_op.tool = "mx-toolkit" THEN "download" ELSE "mem_initialize")
    /\ UNCHANGED << st_op, st_i >>
    /\ InitFrame

\* One turn of `for initaddr, initval, initwidth in mem_init_data`:
\* self.sbp.write_memory(initaddr, initwidth, initval).
tool_mem_initialize_write(result) ==
    /\ st_pc = "mem_initialize"
    /\ st_i <= Len(st_op.script)
    /\ LET entry == st_op.script[st_i]
       IN  traffic' = Append(traffic, Sent("mem_initialize", "write_memory", entry.address, entry.width, entry.value))
    /\ st_i' = st_i + 1
    /\ st_pc' = StatementAfter(result, "mem_initialize")
    /\ UNCHANGED st_op
    /\ InitFrame

\* The end of the for loop, or no turn at all: mx-toolkit.py without an init
\* file writes a warning and returns; atk.py and mx-flashtool.py without one
\* loop over the empty list of __init__.
\* mx-toolkit.py goes on with mem_test, the two others with the download.
tool_mem_initialize_returns ==
    /\ st_pc = "mem_initialize"
    /\ st_i > Len(st_op.script)
    /\ st_pc' = IF st_op.tool = "mx-toolkit" THEN "memtest_write_1" ELSE "download"
    /\ UNCHANGED << st_op, st_i, traffic >>
    /\ InitFrame

InitResults == {"ok", "boot.CommandResponseError"}

NextInit ==
    \/ \E tool \in Tools, base \in BaseAddresses, mode \in Modes, init_file \in BOOLEAN, script \in InitScripts :
           tool_starts(tool, base, mode, init_file, script)
    \/ \E result \in InitResults : tool_get_status(result)
    \/ \E result \in InitResults : tool_memtest_write(result)
    \/ \E result \in InitResults : tool_memtest_read(result)
    \/ \E result \in InitResults : tool_mem_initialize_write(result)
    \/ tool_mem_initialize_returns

SpecInit == Init /\ [][NextInit]_vars

IsPrefixOf(part, whole) == Len(part) <= Len(whole) /\ SubSeq(whole, 1, Len(part)) = part

\* The sanity test the tools are to make: 0xBEEFDEAD written and read back at
\* base + 0, then 0xBEEFCAFE at base + 0x1000.
SanityTest(base) ==
    << Sent("memtest", "write_memory", base, DATA_SIZE_WORD, BEEFDEAD),
       Sent("memtest", "read_memory_single", base, DATA_SIZE_WORD, Word(0, 0)),
       Sent("memtest", "write_memory", base + MEMTEST_STRIDE, DATA_SIZE_WORD, BEEFCAFE),
       Sent("memtest", "read_memory_single", base + MEMTEST_STRIDE, DATA_SIZE_WORD, Word(0, 0)) >>

\* One write_memory for each entry of the script, in the order of the file.
ScriptWrites(script) ==
    [i \in 1 .. Len(script) |->
        Sent("mem_initialize", "write_memory", script[i].address, script[i].width, script[i].value)]

OrderedTraffic(o) ==
    << Sent("run", "get_status", 0, 0, Word(0, 0)) >> \o SanityTest(o.base) \o ScriptWrites(o.script)

\* C34: the SBP traffic before the download is get_status, then the sanity
\* test (written and read back at base + 0, then at base + 0x1000), then one
\* write_memory for each entry of the init script, in the order of the script
\* and each once: at any time a prefix of that sequence, and the whole of it
\* when the download starts.
C34_InitOrder ==
    /\ IsPrefixOf(traffic, OrderedTraffic(st_op))
    /\ st_pc = "download" => traffic = OrderedTraffic(st_op)

MadeBy(by) == SelectSeq(traffic, LAMBDA sent : sent.by = by)

\* What holds of the three tools: get_status is the first call and is made
\* once; the writes of mem_initialize are the entries of the script in its
\* order, each once; the sanity test is write, read, write, read, with
\* 0xBEEFDEAD and then 0xBEEFCAFE, each read at the address just written; at
\* the download all of them have been made.
C34_OrderWithinParts ==
    LET test == MadeBy("memtest")
    IN  /\ traffic # <<>> => traffic[1].call = "get_status"
        /\ Len(MadeBy("run")) <= 1
        /\ IsPrefixOf(MadeBy("mem_initialize"), ScriptWrites(st_op.script))
        /\ Len(test) <= 4
        /\ \A k \in DOMAIN test :
               /\ test[k].call = (IF k % 2 = 1 THEN "write_memory" ELSE "read_memory_single")
               /\ k % 2 = 1 => test[k].value = MemtestValue((k + 1) \div 2)
               /\ k % 2 = 0 => test[k].address = test[k - 1].address
        /\ st_pc = "download" =>
               /\ Len(test) = 4
               /\ MadeBy("mem_initialize") = ScriptWrites(st_op.script)


\* The program-file sub-command
\* ----------------------------
\* ram_kernel_flash_file of the three tools. A chunk is held as what it is made
\* of: `pad` zero bytes and then `len` bytes of the file from `offset` on.
FileFrame == UNCHANGED << rkl_vars, sbp_vars, app_vars, chan_vars, dev_vars, sum_vars, init_vars, usb_vars >>

\* block_size = 0x20000
block_size == 131072

StartAddresses == {0, 5, 131072, 131077, 262143}

FileSizes == {0, 1, 131067, 131072, 131073, 262149}

\* start_address & ~(block_size - 1), block_size being a power of two.
BlockStart(address) == address - (address % block_size)

\* file_fp.read(size) at position `pos` of a file of `data_size` bytes.
FileRead(pos, size, data_size) == [pad |-> 0, offset |-> pos, len |-> Min(size, data_size - pos)]

ChunkLen(c) == c.pad + c.len

KernelCall(name, address, c, read_back_verify) ==
    [name |-> name, address |-> address, pad |-> c.pad, offset |-> c.offset, len |-> c.len,
     read_back_verify |-> read_back_verify]

\* flash_program(current_address, chunk, read_back_verify = True,
\* program_callback = ..., verify_callback = ...) as the tools call it: the
\* signature has no verify_callback, so the call raises TypeError before the
\* body runs; after it the length checks and read_back_verify.
ProgramCallResult(length, read_back_verify, verify_callback) ==
    IF verify_callback THEN "TypeError"
    ELSE IF length = 0 \/ length > FLASH_PROGRAM_MAX_WRITE_SIZE THEN "ValueError"
    ELSE IF read_back_verify THEN "NotImplementedError"
    ELSE "ok"

\* mx-toolkit.py and mx-flashtool.py, from the computation of block_start to
\* the first read of the file: they start at the block boundary and pad the
\* first chunk.
flash_file_starts(tool, start, data_size) ==
    /\ ff_pc = "start"
    /\ tool # "atk"
    /\ ff_op' = [tool |-> tool, start_address |-> start, data_size |-> data_size]
    /\ LET initial_pad == start - BlockStart(start)
           first == FileRead(0, block_size - initial_pad, data_size)
       IN  /\ ff_chunk' = [first EXCEPT !.pad = initial_pad]
           /\ file_pos' = first.len
    /\ current_address' = BlockStart(start)
    /\ ff_pc' = "loop"
    /\ UNCHANGED << kernel_calls, ff_exc >>
    /\ FileFrame

\* atk.py, before the file is opened: flash_set_bbt(True) and
\* flash_erase(start_address, data_size); an exception of flash_erase leaves
\* the sub-command with current_address as it was set at its top, 0.
atk_flash_file_erases(start, data_size, erase_result) ==
    /\ ff_pc = "start"
    /\ ff_op' = [tool |-> "atk", start_address |-> start, data_size |-> data_size]
    /\ kernel_calls' =
           << KernelCall("flash_set_bbt", 0, FileRead(0, 0, 0), FALSE),
              KernelCall("flash_erase", start, FileRead(0, data_size, data_size), FALSE) >>
    /\ ff_pc' = IF erase_result = "ok" THEN "erased" ELSE "raised"
    /\ ff_exc' = IF erase_result = "ok" THEN "none" ELSE erase_result
    /\ UNCHANGED << current_address, ff_chunk, file_pos >>
    /\ FileFrame

\* atk.py, the file is opened: current_address = start_address and the first
\* read, with no padding.
atk_flash_file_opens ==
    /\ ff_pc = "erased"
    /\ current_address' = ff_op.start_address
    /\ ff_chunk' = FileRead(0, block_size, ff_op.data_size)
    /\ file_pos' = FileRead(0, block_size, ff_op.data_size).len
    /\ ff_pc' = "loop"
    /\ UNCHANGED << ff_op, kernel_calls, ff_exc >>
    /\ FileFrame

\* One turn of `while current_address < (start_address + data_size)`.
flash_file_programs ==
    /\ ff_pc = "loop"
    /\ current_address < ff_op.start_address + ff_op.data_size
    /\ kernel_calls' = Append(kernel_calls, KernelCall("flash_program", current_address, ff_chunk, TRUE))
    /\ LET result == ProgramCallResult(ChunkLen(ff_chunk), TRUE, TRUE)
           next == FileRead(file_pos, block_size, ff_op.data_size)
       IN  IF result = "ok"
           THEN /\ current_address' = current_address + ChunkLen(ff_chunk)
                /\ ff_chunk' = next
                /\ file_pos' = file_pos + next.len
                /\ UNCHANGED << ff_pc, ff_exc >>
           ELSE /\ ff_pc' = "raised"
                /\ ff_exc' = result
                /\ UNCHANGED << current_address, ff_chunk, file_pos >>
    /\ UNCHANGED ff_op
    /\ FileFrame

\* The loop condition is false: the sub-command returns.
flash_file_returns ==
    /\ ff_pc = "loop"
    /\ ~(current_address < ff_op.start_address + ff_op.data_size)
    /\ ff_pc' = "done"
    /\ UNCHANGED << ff_op, current_address, ff_chunk, file_pos, kernel_calls, ff_exc >>
    /\ FileFrame

NextFlashFile ==
    \/ \E tool \in Tools, start \in StartAddresses, data_size \in FileSizes :
           flash_file_starts(tool, start, data_size)
    \/ \E start \in StartAddresses, data_size \in FileSizes, erase_result \in RklResults :
           atk_flash_file_erases(start, data_size, erase_result)
    \/ atk_flash_file_opens
    \/ flash_file_programs
    \/ flash_file_returns

SpecFlashFile == Init /\ [][NextFlashFile]_vars

ProgramCalls == SelectSeq(kernel_calls, LAMBDA call : call.name = "flash_program")

FlashFileEnded == ff_pc \in {"done", "raised"} /\ ff_exc \notin RklResults

\* C36: the program-file sub-command calls flash_program with read_back_verify
\* on contiguous chunks: the first at the block boundary at or below the start
\* address, each later one where the previous chunk ended, on a multiple of
\* the block size; every chunk has between one byte and one block; the chunks
\* together are (start_address - block_start) zero bytes and then the file,
\* whole when the sub-command has ended.
C36_ProgramChunks ==
    LET calls == ProgramCalls
        start == ff_op.start_address
    IN  /\ \A k \in DOMAIN calls :
               /\ calls[k].read_back_verify
               /\ calls[k].pad + calls[k].len \in 1 .. block_size
               /\ k = 1 =>
                      /\ calls[k].address = BlockStart(start)
                      /\ calls[k].pad = start - BlockStart(start)
                      /\ calls[k].offset = 0
               /\ k > 1 =>
                      /\ calls[k].address = calls[k - 1].address + calls[k - 1].pad + calls[k - 1].len
                      /\ calls[k].address % block_size = 0
                      /\ calls[k].pad = 0
                      /\ calls[k].offset = calls[k - 1].offset + calls[k - 1].len
        /\ FlashFileEnded =>
               IF calls = <<>>
               THEN ff_op.data_size = 0 /\ start = BlockStart(start)
               ELSE calls[Len(calls)].offset + calls[Len(calls)].len = ff_op.data_size

\* What holds: no tool makes a second call of flash_program, since the first
\* raises TypeError; the one call that mx-toolkit.py and mx-flashtool.py make
\* is at the block boundary with read_back_verify, and its chunk is the pad
\* and the start of the file, between one byte and one block long.
C36_FirstChunkOnly ==
    LET calls == ProgramCalls
        start == ff_op.start_address
    IN  /\ Len(calls) <= 1
        /\ calls # <<>> => ff_pc = "raised" /\ ff_exc = "TypeError"
        /\ (calls # <<>> /\ ff_op.tool # "atk") =>
               /\ calls[1].read_back_verify
               /\ calls[1].address = BlockStart(start)
               /\ calls[1].pad = start - BlockStart(start)
               /\ calls[1].offset = 0
               /\ calls[1].len = Min(block_size - calls[1].pad, ff_op.data_size)
               /\ calls[1].pad + calls[1].len \in 1 .. block_size


\* A USBChannel over its life: open, read, close, open again
\* --------------------------------------------------------
\* pyatk/channel/usbdev.py. The k-th byte the endpoint hands over has the
\* value k, so that a byte lost, repeated or out of place shows.
UsbFrame ==
    /\ UNCHANGED << rkl_vars, sbp_vars, app_vars, dev_vars, sum_vars, init_vars, file_vars >>
    /\ UNCHANGED data_read

MaxReceived == 6

MaxUsbReads == 3

MaxPacket == 4

\* The next n bytes of the device.
FreshBytes(n) == [i \in 1 .. n |-> Len(received) + i]

\* Mutant of Retained: the excess of a packet is dropped.
RetainedNothing(buffer, length) == << >>

\* return_data = self.internal_read_buffer[:length]
Handed(buffer, length) == SubSeq(buffer, 1, Min(length, Len(buffer)))

\* self.internal_read_buffer = self.internal_read_buffer[length:]
Retained(buffer, length) == SubSeq(buffer, length + 1, Len(buffer))

\* open(): the device is found and configured (the handles are set), or
\* IOError; internal_read_buffer is not assigned.
usb_channel_open(result) ==
    /\ ch_pc = "idle"
    /\ ~usb_open
    /\ usb_open' = (result = "ok")
    /\ stale' = IF result = "ok" THEN Len(received) ELSE stale
    /\ UNCHANGED << ch_pc, ch_op, internal_read_buffer, ch_result, ch_nreads >>
    /\ UNCHANGED << received, returned, usb_nreads, failed_reads >>
    /\ UsbFrame

\* close(): the handles are set to None; internal_read_buffer is not assigned.
usb_channel_close ==
    /\ ch_pc = "idle"
    /\ usb_open
    /\ usb_open' = FALSE
    /\ UNCHANGED << ch_pc, ch_op, internal_read_buffer, ch_result, ch_nreads >>
    /\ UNCHANGED << received, returned, stale, usb_nreads, failed_reads >>
    /\ UsbFrame

\* read(length): the while loop is not entered when the buffer holds enough.
usb_channel_read(length) ==
    /\ ch_pc = "idle"
    /\ usb_nreads < MaxUsbReads
    /\ usb_nreads' = usb_nreads + 1
    /\ ch_op' = [impl |-> "usbdev", length |-> length]
    /\ ch_nreads' = 0
    /\ IF Len(internal_read_buffer) < length
       THEN /\ ch_pc' = "reading"
            /\ ch_result' = [kind |-> "pending", data |-> << >>]
            /\ UNCHANGED << internal_read_buffer, returned >>
       ELSE /\ ch_pc' = "done"
            /\ ch_result' = [kind |-> "return", data |-> Handed(internal_read_buffer, length)]
            /\ internal_read_buffer' = Retained(internal_read_buffer, length)
            /\ returned' = returned \o Handed(internal_read_buffer, length)
    /\ UNCHANGED << usb_open, received, stale, failed_reads >>
    /\ UsbFrame

\* One turn of the while loop: a packet of the IN endpoint is appended to
\* internal_read_buffer; the call returns when the buffer holds `length` bytes.
usb_channel_packet(n) ==
    /\ ch_pc = "reading"
    /\ usb_open
    /\ ch_nreads < MaxPackets
    /\ Len(received) + n <= MaxReceived
    /\ ch_nreads' = ch_nreads + 1
    /\ received' = received \o FreshBytes(n)
    /\ LET buffer == internal_read_buffer \o FreshBytes(n)
       IN  IF Len(buffer) < ch_op.length
           THEN /\ internal_read_buffer' = buffer
                /\ UNCHANGED << ch_pc, ch_result, returned >>
           ELSE /\ ch_pc' = "done"
                /\ ch_result' = [kind |-> "return", data |-> Handed(buffer, ch_op.length)]
                /\ internal_read_buffer' = Retained(buffer, ch_op.length)
                /\ returned' = returned \o Handed(buffer, ch_op.length)
    /\ UNCHANGED << ch_op, usb_open, stale, usb_nreads, failed_reads >>
    /\ UsbFrame

\* endpoint_in.read raises usb.USBError, which read raises again as IOError;
\* on a closed channel endpoint_in is None and the attribute access fails.
\* What the buffer holds stays.
usb_channel_error ==
    /\ ch_pc = "reading"
    /\ ch_pc' = "done"
    /\ ch_result' = [kind |-> IF usb_open THEN "IOError" ELSE "AttributeError", data |-> << >>]
    /\ failed_reads' = failed_reads + 1
    /\ UNCHANGED << ch_op, internal_read_buffer, ch_nreads >>
    /\ UNCHANGED << usb_open, received, returned, stale, usb_nreads >>
    /\ UsbFrame

\* The caller has the result.
usb_channel_returns ==
    /\ ch_pc = "done"
    /\ ch_pc' = "idle"
    /\ UNCHANGED << ch_op, internal_read_buffer, ch_result, ch_nreads >>
    /\ UNCHANGED usb_vars
    /\ UsbFrame

NextUsb ==
    \/ \E result \in OpenResults : usb_channel_open(result)
    \/ usb_channel_close
    \/ \E length \in 1 .. MaxRead : usb_channel_read(length)
    \/ \E n \in 0 .. MaxPacket : usb_channel_packet(n)
    \/ usb_channel_error
    \/ usb_channel_returns

SpecUsb == Init /\ [][NextUsb]_vars

UsbReadReturned == ch_pc = "done" /\ ch_op.impl = "usbdev" /\ ch_result.kind = "return"

\* C37: whatever the reads and the packets, a read that returns hands over
\* exactly `length` bytes, and what was received is what was returned followed
\* by what the buffer holds: nothing lost, repeated or out of order, also
\* after a read that raised.
C37_BufferLaw ==
    /\ received = returned \o internal_read_buffer
    /\ UsbReadReturned =>
           /\ Len(ch_result.data) = ch_op.length
           /\ ch_result.data = SubSeq(returned, Len(returned) - ch_op.length + 1, Len(returned))

\* A read returned after an earlier one had raised with bytes in the buffer,
\* and left the excess of a packet behind.
C37_Witness ==
    /\ UsbReadReturned
    /\ failed_reads > 0
    /\ Len(returned) >= 3
    /\ internal_read_buffer # << >>

\* C40: after a close and an open that succeeded, a read returns only bytes
\* the device sent after that open; what the buffer held before the close is
\* not handed to a caller.
C40_FreshAfterReopen ==
    (UsbReadReturned /\ usb_open) => \A i \in DOMAIN ch_result.data : ch_result.data[i] > stale

\* What holds: the bytes from before the open that such a read returns are
\* the oldest ones not yet returned, in their order.
C40_StaleBytesInOrder ==
    (UsbReadReturned /\ usb_open) =>
        \A i \in DOMAIN ch_result.data :
            ch_result.data[i] = Len(returned) - Len(ch_result.data) + i

====
